---- MODULE Spec2Model ----
(***************************************************************************)
(* Model of the movie-recommender dashboard variants of                     *)
(* src/unnamed/part_000: the sqlite watched store, the affinity profile     *)
(* (get_top_genres), the fallback recommender (get_genre_recommendations),  *)
(* the Recommendations tab, get_combined_recommendations and the            *)
(* genre-overlap boost (boost_recommendations), the card order              *)
(* (order_df_by_titles), the accounts (signup, login, logout, users.csv)    *)
(* and mark_watched as two sessions run it.                                 *)
(*                                                                          *)
(* Strings whose characters matter (usernames parsed by int(), the          *)
(* pipe-separated genres_clean column, genre names tested with `in`) are    *)
(* sequences of one-character strings.  Ratings are in tenths.              *)
(***************************************************************************)
EXTENDS Integers, Sequences, FiniteSets, TLC

VARIABLES
    movies_df,          \* the catalog: rows [title, genres_clean, avg_rating]
    final_recs,         \* the pickled model: dict key -> list of titles
    watched,            \* the watched table: rows [username, movie_title], in rowid order
    tieOrder,           \* how this build's quicksort orders rows with equal keys
    res,                \* the result of the last recommender call
    recs_df,            \* boost: the base list, rows [movie_id, score]
    user_pref_genres,   \* boost: the user's preferred genres
    meta_df,            \* boost: the catalog, rows [movie_id, genres_clean]
    boost_factor,       \* boost: numerator of boost_factor, in units of 1/BoostDen
    boosted,            \* boost: the frame returned by the last call
    prev_boosted,       \* boost: the frame returned by the call before it
    key_error,          \* boost: the display loop raised KeyError on the last frame
    calls,              \* boost: number of calls made on the current inputs
    model_data,         \* handler: what the unpickled model does for the requested user
    uncaught,           \* handler: the exception that ended the last run, "" when none did
    notice,             \* handler: the st.error / st.info message of the last run
    gr_frame,           \* the locals of a get_genre_recommendations call in progress
    users,              \* the user store: its kind and its rows [username, password]
    session,            \* st.session_state of every browser session: logged_in, username
    mw_frame            \* the mark_watched calls in progress, one per session

vars == <<movies_df, final_recs, watched, tieOrder, res,
          recs_df, user_pref_genres, meta_df, boost_factor, boosted, prev_boosted,
          key_error, calls, model_data, uncaught, notice, gr_frame,
          users, session, mw_frame>>

dashVars == <<movies_df, final_recs, watched, res>>
boostVars == <<recs_df, user_pref_genres, meta_df, boost_factor, boosted, prev_boosted,
               key_error, calls>>
handlerVars == <<model_data, uncaught, notice>>
accountVars == <<users, session, mw_frame>>

----------------------------------------------------------------------------
(* Bounds *)

MaxWatched == 2     \* rows of the watched table
MaxTopN == 2        \* largest top_n / k passed to a recommender call
MaxRecs == 3        \* longest base list handed to boost_recommendations

----------------------------------------------------------------------------
(* Generic helpers *)

Range(s) == {s[i] : i \in 1..Len(s)}

Min2(a, b) == IF a < b THEN a ELSE b

Max2(a, b) == IF a > b THEN a ELSE b

Head_n(s, n) == SubSeq(s, 1, Min2(n, Len(s)))

RECURSIVE Flatten(_)
Flatten(ss) == IF ss = <<>> THEN <<>> ELSE Head(ss) \o Flatten(Tail(ss))

\* Position of the first occurrence of x in s (x must occur).
FirstPos(s, x) == CHOOSE i \in 1..Len(s) : s[i] = x /\ \A j \in 1..(i-1) : s[j] # x

\* list(dict.fromkeys(s)): the distinct elements in first-occurrence order.
RECURSIVE Dedup(_)
Dedup(s) ==
    IF s = <<>> THEN <<>>
    ELSE LET d == Dedup(SubSeq(s, 1, Len(s) - 1))
             x == s[Len(s)]
         IN IF x \in Range(d) THEN d ELSE Append(d, x)

Count(s, x) == Cardinality({i \in 1..Len(s) : s[i] = x})

\* Rank of position i among rows with equal keys.
TieRank(i) == IF i \in DOMAIN tieOrder THEN tieOrder[i] ELSE i

\* The order in which a stable descending sort visits the positions of keys
\* (Python's sorted(..., reverse=True), heapq.nlargest).
StableArgsortDesc(keys) ==
    [p \in 1..Len(keys) |->
        CHOOSE i \in 1..Len(keys) :
            Cardinality({j \in 1..Len(keys) :
                keys[j] > keys[i] \/ (keys[j] = keys[i] /\ j < i)}) = p - 1]

\* The same for pandas sort_values(ascending=False) with the default
\* kind='quicksort', which is not stable: rows with equal keys come out in the
\* order this build's sort gives them.
QuickArgsortDesc(keys) ==
    [p \in 1..Len(keys) |->
        CHOOSE i \in 1..Len(keys) :
            Cardinality({j \in 1..Len(keys) :
                keys[j] > keys[i]
                \/ (keys[j] = keys[i] /\ TieRank(j) < TieRank(i))}) = p - 1]

\* sort_values(ascending=True), default kind.
QuickArgsortAsc(keys) == QuickArgsortDesc([i \in 1..Len(keys) |-> 0 - keys[i]])

\* DataFrame.iloc[order]
Take(s, order) == [k \in 1..Len(order) |-> s[order[k]]]

----------------------------------------------------------------------------
(* Strings as character sequences *)

NaN == <<"NaN">>        \* a missing cell of the CSV (float nan), not a string

IsSubstring(p, s) ==
    \E i \in 0..(Len(s) - Len(p)) : SubSeq(s, i + 1, i + Len(p)) = p

\* str.split(sep) for a one-character separator.
RECURSIVE Split(_, _)
Split(s, sep) ==
    IF sep \notin Range(s) THEN <<s>>
    ELSE LET i == FirstPos(s, sep)
         IN <<SubSeq(s, 1, i - 1)>> \o Split(SubSeq(s, i + 1, Len(s)), sep)

\* str.strip()
RECURSIVE Strip(_)
Strip(s) ==
    IF s = <<>> THEN s
    ELSE IF Head(s) = " " THEN Strip(Tail(s))
    ELSE IF s[Len(s)] = " " THEN Strip(SubSeq(s, 1, Len(s) - 1))
    ELSE s

Digits == <<"0", "1", "2", "3", "4", "5", "6", "7", "8", "9">>

\* int(username) succeeds: the username is a string of decimal digits.
IsNumeric(u) == u # <<>> /\ \A i \in 1..Len(u) : u[i] \in Range(Digits)

\* int(username) for such a username.
RECURSIVE IntOf(_)
IntOf(u) ==
    IF Len(u) = 1 THEN FirstPos(Digits, u[1]) - 1
    ELSE 10 * IntOf(SubSeq(u, 1, Len(u) - 1)) + (FirstPos(Digits, u[Len(u)]) - 1)

\* Keys of the pickled dict: Python keeps 7 and "7" apart.
IntKey(n) == <<"int", n>>

StrKey(u) == <<"str">> \o u

----------------------------------------------------------------------------
(* Inputs of the dashboard: usernames, catalogs, pickled models *)

Usernames == {<<"7">>, <<"b">>}

Row(t, g, r) == [title |-> t, genres_clean |-> g, avg_rating |-> r]

Catalogs == {
    \* the catalog of the specification's scenario: Action, Comedy, Action|Drama
    << Row("A", <<"a">>, 40), Row("B", <<"c">>, 45), Row("C", <<"a", "|", "d">>, 30) >>,
    \* an empty catalog
    << >>,
    \* equal ratings, genres met in different orders
    << Row("A", <<"d", "|", "c">>, 40), Row("B", <<"c", "|", "a">>, 40), Row("C", <<"a">>, 40) >>,
    \* a genre name that is part of another one, and a row without genres
    << Row("A", <<"a">>, 50), Row("B", <<"a", "b">>, 40), Row("C", NaN, 30) >>,
    \* two titles spanning five genres
    << Row("A", <<"a", "|", "c", "|", "d">>, 50), Row("B", <<"e", "|", "f">>, 40),
       Row("C", <<"f">>, 45), Row("D", <<"a">>, 20), Row("E", <<"a", "|", "f">>, 35) >>
}

AllTitles == UNION {{c[i].title : i \in 1..Len(c)} : c \in Catalogs}

\* Orders a quicksort may leave rows with equal keys in (the first is the stable one).
TieOrders == {<<1, 2, 3>>, <<1, 3, 2>>, <<2, 1, 3>>, <<2, 3, 1>>, <<3, 1, 2>>, <<3, 2, 1>>}

FinalRecsChoices == {
    << >>,
    [k \in {IntKey(7)} |-> <<"C", "A", "B">>],
    [k \in {IntKey(7), StrKey(<<"b">>)} |->
        IF k = IntKey(7) THEN <<"B", "X", "A">> ELSE <<"A", "C", "B">>]
}

Titles(df) == [i \in 1..Len(df) |-> df[i].title]

\* df[df["title"].isin(titles)]
IsIn(df, titles) == SelectSeq(df, LAMBDA r : r.title \in titles)

\* df[~df["title"].isin(titles)]
NotIn(df, titles) == SelectSeq(df, LAMBDA r : r.title \notin titles)

\* df.sort_values(by="avg_rating", ascending=False)
SortByRating(df) ==
    Take(df, QuickArgsortDesc([i \in 1..Len(df) |-> df[i].avg_rating]))

----------------------------------------------------------------------------
(* The watched store (sqlite table watched) *)

WatchedRow(u, t) == [username |-> u, movie_title |-> t]

\* SELECT movie_title FROM watched WHERE username=?
get_watched(u) ==
    LET rows == SelectSeq(watched, LAMBDA r : r.username = u)
    IN [i \in 1..Len(rows) |-> rows[i].movie_title]

\* mark_watched, SELECT-then-INSERT: the table after the call.
mark_watched(u, t) ==
    IF \E i \in 1..Len(watched) : watched[i] = WatchedRow(u, t)
    THEN watched
    ELSE Append(watched, WatchedRow(u, t))

----------------------------------------------------------------------------
(* Affinity profile: get_top_genres *)

\* One cell of genres_clean.str.split('|'): the list of parts, NaN for a NaN cell.
StrSplitPipe(g) == IF g = NaN THEN NaN ELSE Split(g, "|")

\* Series.explode().dropna() over the rows of df: the parts of every row, in row
\* order, a NaN cell contributing nothing.
ExplodeGenres(df) ==
    Flatten([i \in 1..Len(df) |->
        IF StrSplitPipe(df[i].genres_clean) = NaN THEN <<>>
        ELSE StrSplitPipe(df[i].genres_clean)])

\* movies_df[movies_df['title'].isin(watched)]['genres_clean'] split and exploded:
\* the catalog is scanned in catalog order, whatever the order of w.
WatchedGenresInsertionOrder(w) ==
    ExplodeGenres([i \in 1..Len(w) |->
        IF \E j \in 1..Len(movies_df) : movies_df[j].title = w[i]
        THEN movies_df[CHOOSE j \in 1..Len(movies_df) : movies_df[j].title = w[i]]
        ELSE Row(w[i], NaN, 0)])

WatchedGenres(w) == ExplodeGenres(IsIn(movies_df, Range(w)))

\* Counter(s).most_common(k): heapq.nlargest over the counter's items, which are
\* in first-insertion order; equal counts keep that order.
MostCommonNoLimit(s, k) ==
    LET d == Dedup(s)
    IN Take(d, StableArgsortDesc([i \in 1..Len(d) |-> Count(s, d[i])]))

MostCommon(s, k) ==
    LET d == Dedup(s)
    IN Head_n(Take(d, StableArgsortDesc([i \in 1..Len(d) |-> Count(s, d[i])])), k)

get_top_genres(u, k) ==
    LET w == get_watched(u)
    IN IF w = <<>> THEN <<>> ELSE MostCommon(WatchedGenres(w), k)

----------------------------------------------------------------------------
(* Fallback recommender and Recommendations tab, lines 365-640 *)

TopGenresK == 4         \* get_top_genres(username, k=4)

\* fillna(""): a NaN cell read as the empty string.
FillNa(g) == IF g = NaN THEN <<>> ELSE g

\* any(gen in g for gen in top_genres): Python's substring test on the cell.
AnyGenreIn(top_genres, g) ==
    \E i \in 1..Len(top_genres) : IsSubstring(top_genres[i], g)

\* The candidate frame of get_genre_recommendations for a user with history.
GenreCandidatesUnfiltered(u) ==
    NotIn(movies_df, Range(get_watched(u)))

GenreCandidates(u) ==
    LET top_genres == get_top_genres(u, TopGenresK)
        cand == NotIn(movies_df, Range(get_watched(u)))
    IN SelectSeq(cand, LAMBDA r : AnyGenreIn(top_genres, FillNa(r.genres_clean)))

\* cand[cand['genres_clean'].fillna("").apply(...)] on a frame without rows:
\* apply() returns an empty object Series, which pandas does not take for a
\* boolean mask but for a list of column labels, so the selection keeps no
\* column and sort_values(by="avg_rating") raises KeyError.
EmptyMaskKeyError(cand) == cand = <<>>

get_genre_recommendations_raises(u) ==
    /\ get_watched(u) # <<>>
    /\ EmptyMaskKeyError(NotIn(movies_df, Range(get_watched(u))))

get_genre_recommendations(u, top_n) ==
    IF get_watched(u) = <<>>
    THEN Head_n(Titles(SortByRating(movies_df)), top_n)
    ELSE Head_n(Titles(SortByRating(GenreCandidates(u))), top_n)

LastPos(s, x) == CHOOSE i \in 1..Len(s) : s[i] = x /\ \A j \in (i+1)..Len(s) : s[j] # x

\* order_df_by_titles: order_map keeps the last index of a repeated title.
order_df_by_titles(df, ordered_titles) ==
    LET sub == IsIn(df, Range(ordered_titles))
    IN Take(sub, QuickArgsortAsc([i \in 1..Len(sub) |-> LastPos(ordered_titles, sub[i].title)]))

\* The frame passed to order_df_by_titles, had '__order' been added to it.
movies_df_after_order_in_place(df, ordered_titles) ==
    IF ordered_titles = <<>> THEN df
    ELSE [i \in 1..Len(df) |->
            [title |-> df[i].title, genres_clean |-> df[i].genres_clean,
             avg_rating |-> df[i].avg_rating,
             order |-> IF df[i].title \in Range(ordered_titles)
                       THEN LastPos(ordered_titles, df[i].title) ELSE 0]]

\* The frame passed to order_df_by_titles after the call: '__order' is added to
\* and dropped from df[...].copy(), the argument is not written.
movies_df_after_order(df, ordered_titles) == df

\* The titles of the cards render_cards_by_titles draws.
CardsShown(titles) ==
    IF titles = <<>> THEN <<>> ELSE Titles(order_df_by_titles(movies_df, titles))

\* user_id is not None and user_id in final_recs
ModelHasInt(u) == IsNumeric(u) /\ IntKey(IntOf(u)) \in DOMAIN final_recs

\* final_recs[user_id][:TOP_N]
ModelTitles(u, top_n) == Head_n(final_recs[IntKey(IntOf(u))], top_n)

\* rec_titles of the Recommendations tab.
TabRecTitles(u, top_n) ==
    IF ModelHasInt(u) THEN ModelTitles(u, top_n) ELSE get_genre_recommendations(u, top_n)

Result(op, u, n, titles, shown, raised, hit) ==
    [op |-> op, user |-> u, n |-> n, titles |-> titles, shown |-> shown,
     seen |-> Range(get_watched(u)), raised |-> raised, hit |-> hit]

NoResult ==
    [op |-> "none", user |-> <<>>, n |-> 0, titles |-> <<>>, shown |-> <<>>,
     seen |-> {}, raised |-> FALSE, hit |-> FALSE]

----------------------------------------------------------------------------
(* Recommendations tab with the watched filter, lines 2605-2830 *)

\* str(g): a NaN cell prints as "nan".
StrOf(g) == IF g = NaN THEN <<"n", "a", "n">> ELSE g

\* Series.explode() without dropna: a NaN cell stays as one NaN entry.
ExplodeGenresKeepNaN(df) ==
    Flatten([i \in 1..Len(df) |->
        IF StrSplitPipe(df[i].genres_clean) = NaN THEN <<NaN>>
        ELSE StrSplitPipe(df[i].genres_clean)])

TopGenresKeepNaN(u) ==
    MostCommon(ExplodeGenresKeepNaN(IsIn(movies_df, Range(get_watched(u)))), TopGenresK)

\* any(genre in str(g) for genre in top_genres) raises TypeError when it reaches
\* a NaN genre (a float on the left of `in`) before a genre that matches.
AnyGenreInRaises(top_genres, g) ==
    \E i \in 1..Len(top_genres) :
        /\ top_genres[i] = NaN
        /\ \A j \in 1..(i-1) : top_genres[j] # NaN /\ ~IsSubstring(top_genres[j], g)

AnyGenreInStr(top_genres, g) ==
    \E i \in 1..Len(top_genres) : top_genres[i] # NaN /\ IsSubstring(top_genres[i], g)

filtered_genre_recommendations_raises(u) ==
    LET seen == Range(get_watched(u))
        top_genres == TopGenresKeepNaN(u)
    IN /\ seen # {}
       /\ \/ EmptyMaskKeyError(NotIn(movies_df, seen))
          \/ \E i \in 1..Len(movies_df) :
               /\ movies_df[i].title \notin seen
               /\ AnyGenreInRaises(top_genres, StrOf(movies_df[i].genres_clean))

\* get_genre_recommendations of this variant (the list it returns).
filtered_genre_recommendations(u, top_n) ==
    IF get_watched(u) = <<>>
    THEN Head_n(Titles(SortByRating(movies_df)), top_n)
    ELSE LET top_genres == TopGenresKeepNaN(u)
             seen == Range(get_watched(u))
             recs == SelectSeq(NotIn(movies_df, seen),
                        LAMBDA r : AnyGenreInStr(top_genres, StrOf(r.genres_clean)))
         IN Head_n(Titles(SortByRating(recs)), top_n)

\* recs = [t for t in recs if t not in watched_movies]
RemoveWatched(recs, u) ==
    LET seen == Range(get_watched(u))
    IN SelectSeq(recs, LAMBDA t : t \notin seen)

\* to_set(genre_map.get(t)): the genres of the catalog row of title t, the empty
\* set for a NaN cell and for a title the catalog does not have.
to_set(t) ==
    IF \E k \in 1..Len(movies_df) : movies_df[k].title = t /\ movies_df[k].genres_clean # NaN
    THEN Range(Split(movies_df[CHOOSE k \in 1..Len(movies_df) :
                                 movies_df[k].title = t].genres_clean, "|"))
    ELSE {}

\* score = len(inter) / len(union) if union else 0.0, as numerator and denominator.
JaccardNum(a, b) == Cardinality(a \cap b)

JaccardDen(a, b) == IF a \cup b = {} THEN 1 ELSE Cardinality(a \cup b)

\* The score of a watched title with genres gv is smaller than the score of one
\* with genres gw, for a recommended title with genres gt.
ScoreBelow(gt, gv, gw) ==
    JaccardNum(gt, gv) * JaccardDen(gt, gw) < JaccardNum(gt, gw) * JaccardDen(gt, gv)

\* The loop with `score >= best_score`: the last of the best watched titles wins.
best_w_last(t, ws) ==
    LET gt == to_set(t)
        gw == [i \in 1..Len(ws) |-> to_set(ws[i])]
    IN ws[CHOOSE i \in 1..Len(ws) :
             /\ \A j \in 1..Len(ws) : ~ScoreBelow(gt, gw[i], gw[j])
             /\ \A j \in (i+1)..Len(ws) : ScoreBelow(gt, gw[j], gw[i])]

\* best_w: best_score starts at -1.0 and is replaced on `score > best_score`,
\* so the first watched title with the highest score wins, also with score 0.
best_w(t, ws) ==
    LET gt == to_set(t)
        gw == [i \in 1..Len(ws) |-> to_set(ws[i])]
    IN ws[CHOOSE i \in 1..Len(ws) :
             /\ \A j \in 1..Len(ws) : ~ScoreBelow(gt, gw[i], gw[j])
             /\ \A j \in 1..(i-1) : ScoreBelow(gt, gw[j], gw[i])]

Reason(t, kind, w) == [title |-> t, kind |-> kind, because |-> w]

\* build_reason_map(username, rec_titles), one entry per recommended title.
build_reason_map(u, rec_titles) ==
    LET ws == Dedup(get_watched(u))
    IN [i \in 1..Len(rec_titles) |->
          IF ws = <<>> THEN Reason(rec_titles[i], "Recommended for you", "")
          ELSE Reason(rec_titles[i], "Because you watched", best_w(rec_titles[i], ws))]

\* What the tab drew, with the reason under every card.
WithReasons(r, reasons) ==
    [op |-> r.op, user |-> r.user, n |-> r.n, titles |-> r.titles, shown |-> r.shown,
     seen |-> r.seen, raised |-> r.raised, hit |-> r.hit, reasons |-> reasons]

----------------------------------------------------------------------------
(* get_combined_recommendations, lines 3556-3730 *)

CombinedTopK == 3       \* most_common(3)

Oversample == 3         \* top_n * 3

ReplaceChar(s, a, b) == [i \in 1..Len(s) |-> IF s[i] = a THEN b ELSE s[i]]

\* split_genres: 'Action|Drama' or 'Action, Drama'; empty parts dropped.
split_genres(g) ==
    IF g = NaN THEN <<>>
    ELSE LET parts == Split(ReplaceChar(g, "|", ","), ",")
             stripped == [i \in 1..Len(parts) |-> Strip(parts[i])]
         IN SelectSeq(stripped, LAMBDA x : x # <<>>)

\* ["genres_clean"].astype(str).apply(split_genres).explode(): an empty list
\* explodes to one NaN entry.
CombinedWatchedGenres(u) ==
    LET df == IsIn(movies_df, Range(get_watched(u)))
    IN Flatten([i \in 1..Len(df) |->
          IF split_genres(StrOf(df[i].genres_clean)) = <<>> THEN <<NaN>>
          ELSE split_genres(StrOf(df[i].genres_clean))])

CombinedTopGenres(u) ==
    LET exploded == CombinedWatchedGenres(u)
    IN IF exploded = <<>> THEN <<>> ELSE MostCommon(exploded, CombinedTopK)

\* movies_df["genres_clean"].apply(lambda g: any(x in g for x in genres)) raises
\* TypeError on a NaN cell (a float on the right of `in`).
get_genre_top_rated_raises(genres) ==
    /\ genres # <<>>
    /\ \E i \in 1..Len(movies_df) : movies_df[i].genres_clean = NaN

get_genre_top_rated(genres, exclude_titles, top_n) ==
    IF genres = <<>>
    THEN Head_n(Titles(SortByRating(NotIn(movies_df, exclude_titles))), top_n)
    ELSE Head_n(Titles(SortByRating(
            SelectSeq(NotIn(movies_df, exclude_titles),
                      LAMBDA r : AnyGenreIn(genres, r.genres_clean)))), top_n)

\* final_recs.get(username, [])
HybridRecs(u) ==
    IF StrKey(u) \in DOMAIN final_recs THEN final_recs[StrKey(u)] ELSE <<>>

get_combined_recommendations(u, top_n) ==
    LET watched_list == Range(get_watched(u))
        genre_recs == get_genre_top_rated(CombinedTopGenres(u), watched_list, top_n * Oversample)
        overall_top == Head_n(Titles(SortByRating(NotIn(movies_df, watched_list))),
                              top_n * Oversample)
        merged == Dedup(HybridRecs(u) \o genre_recs \o overall_top)
    IN Head_n(Titles(SortByRating(IsIn(movies_df, Range(merged)))), top_n)

----------------------------------------------------------------------------
(* boost_recommendations and its caller, lines 120-170 and 350-362 *)
(*                                                                          *)
(* Scores are integers in units of 5e-7, so that the floor 1e-6 of the      *)
(* score range is MinRange units.  boost_factor is boost_factor/BoostDen.   *)
(* overlap is kept as its numerator over max(len(user_pref_genres), 1) and  *)
(* score_boosted as its numerator over BoostDen * max(len(prefs), 1), which *)
(* keeps the arithmetic exact.                                              *)

MinRange == 2           \* 1e-6 in score units

BoostDen == 4           \* boost_factor=0.25 is 1/BoostDen

MinSliderTopN == 5      \* st.slider("Number of recommendations", min_value=5, ...)

\* A catalog cell holding a Python list of genre strings.
PyList(items) == <<"list">> \o items

IsList(g) == g # <<>> /\ g[1] = "list"

\* isinstance(g, str)
IsStr(g) == g # NaN /\ ~IsList(g)

\* [gg.strip() for gg in g.split("|")] if isinstance(g, str) else []
genres_list(g) ==
    IF IsStr(g)
    THEN [i \in 1..Len(Split(g, "|")) |-> Strip(Split(g, "|")[i])]
    ELSE <<>>

MergedRow(r, gl) ==
    [movie_id |-> r.movie_id, score |-> r.score, genres_list |-> gl,
     overlap |-> 0, score_boosted |-> 0]

\* An inner merge: base rows without a catalog row are dropped.
InnerMerge(recs, meta) ==
    Flatten([i \in 1..Len(recs) |->
        LET m == SelectSeq(meta, LAMBDA x : x.movie_id = recs[i].movie_id)
        IN [j \in 1..Len(m) |-> MergedRow(recs[i], genres_list(m[j].genres_clean))]])

\* recs_df.merge(meta[['movie_id', 'genres_list']], on='movie_id', how='left'):
\* left order kept, one row per matching catalog row, NaN where there is none.
LeftMerge(recs, meta) ==
    Flatten([i \in 1..Len(recs) |->
        LET m == SelectSeq(meta, LAMBDA x : x.movie_id = recs[i].movie_id)
        IN IF m = <<>> THEN <<MergedRow(recs[i], NaN)>>
           ELSE [j \in 1..Len(m) |-> MergedRow(recs[i], genres_list(m[j].genres_clean))]])

\* max(len(user_pref_genres), 1)
PrefDen(prefs) == Max2(Len(prefs), 1)

\* The overlap count returned as the ratio, without the division by len(prefs).
overlap_boost_count(gl, prefs) ==
    IF gl = NaN \/ gl = <<>> THEN 0
    ELSE Cardinality(Range(gl) \cap Range(prefs)) * PrefDen(prefs)

\* overlap_boost: the numerator of the overlap ratio over PrefDen(prefs).
overlap_boost(gl, prefs) ==
    IF gl = NaN \/ gl = <<>> THEN 0
    ELSE Cardinality(Range(gl) \cap Range(prefs))

MinScore(rows) == CHOOSE x \in {rows[i].score : i \in 1..Len(rows)} :
                    \A i \in 1..Len(rows) : x <= rows[i].score

MaxScore(rows) == CHOOSE x \in {rows[i].score : i \in 1..Len(rows)} :
                    \A i \in 1..Len(rows) : x >= rows[i].score

\* score_range = max(1e-6, max_s - min_s)
score_range(rows) == Max2(MinRange, MaxScore(rows) - MinScore(rows))

\* merged with the overlap and score_boosted columns filled in, before the sort.
BoostedUnsorted(recs, prefs, meta, bf) ==
    LET merged == LeftMerge(recs, meta)
    IN [i \in 1..Len(merged) |->
          [merged[i] EXCEPT
              !.overlap = overlap_boost(merged[i].genres_list, prefs),
              !.score_boosted =
                  merged[i].score * BoostDen * PrefDen(prefs)
                  + bf * score_range(merged) * overlap_boost(merged[i].genres_list, prefs)]]

\* merged.sort_values(by='score_boosted', ascending=False).reset_index(drop=True)
SortByBoosted(rows) ==
    Take(rows, QuickArgsortDesc([i \in 1..Len(rows) |-> rows[i].score_boosted]))

Frame(columns, rows) == [columns |-> columns, rows |-> rows]

NoFrame == Frame({}, <<>>)

\* The frame boost_recommendations returns.
boost_recommendations(recs, prefs, meta, bf) ==
    IF prefs = <<>>
    THEN Frame({"movie_id", "title", "score"},
               [i \in 1..Len(recs) |-> MergedRow(recs[i], NaN)])
    ELSE Frame({"movie_id", "title", "score", "genres_list", "overlap", "score_boosted"},
               SortByBoosted(BoostedUnsorted(recs, prefs, meta, bf)))

\* movie_metadata_df after a call: genres_list is added to meta, a copy.
meta_df_after_boost(meta, prefs) == meta

\* recs_df after a call that wrote the boosted scores back into it.
RecsAfterBoostInPlace(recs, out) ==
    IF Len(out.rows) = Len(recs) /\ "score_boosted" \in out.columns
    THEN [i \in 1..Len(recs) |->
            [movie_id |-> out.rows[i].movie_id, score |-> out.rows[i].score_boosted]]
    ELSE recs

\* recs_df after a call: merge() builds a new frame, the argument is not written.
RecsAfterBoost(recs, out) == recs

\* The display loop reads row['score_boosted'] of every row of boosted.head(top_n).
DisplayKeyError(out) ==
    Head_n(out.rows, MinSliderTopN) # <<>> /\ "score_boosted" \notin out.columns

\* genres = row.get("genres_list") or []: the NaN a row without a catalog row
\* carries is truthy, and ', '.join(genres) raises TypeError on it.
DisplayTypeError(out) ==
    /\ "score_boosted" \in out.columns
    /\ \E i \in 1..Len(Head_n(out.rows, MinSliderTopN)) : out.rows[i].genres_list = NaN

\* The exception the display loop ends the run with, "" when it draws every row.
DisplayError(out) ==
    IF DisplayKeyError(out) THEN "KeyError"
    ELSE IF DisplayTypeError(out) THEN "TypeError"
    ELSE ""

BaseIds == {2, 3, 4}

\* 3.0, 3.0000005 and 4.5
ScoreValues == {6000000, 6000001, 9000000}

BaseRows == {[movie_id |-> m, score |-> x] : m \in BaseIds, x \in ScoreValues}

BaseLists == UNION {[1..n -> BaseRows] : n \in 1..MaxRecs}

\* The scenario's catalog: 1 Action, 2 Comedy, 3 Action|Drama; no row has id 4.
BoostCatalog ==
    << [movie_id |-> 1, genres_clean |-> <<"a">>],
       [movie_id |-> 2, genres_clean |-> <<"c">>],
       [movie_id |-> 3, genres_clean |-> <<"a", "|", "d">>] >>

PrefChoices == { <<>>, << <<"a">> >>, << <<"a">>, <<"d">> >>, << <<"d">>, <<"c">> >> }

BoostFactors == {1, BoostDen}

BoostTieOrders == {<<1, 2, 3>>, <<3, 2, 1>>, <<2, 3, 1>>}

\* The "Get personalized recommendations" handler from the boost on: it is
\* reached with a non-empty recs_df.
GetPersonalizedRecommendations ==
    /\ calls < 2
    /\ recs_df # <<>>
    /\ LET out == boost_recommendations(recs_df, user_pref_genres, meta_df, boost_factor)
       IN /\ boosted' = out
          /\ key_error' = DisplayKeyError(out)
          /\ uncaught' = DisplayError(out)
          /\ recs_df' = RecsAfterBoost(recs_df, out)
    /\ prev_boosted' = boosted
    /\ calls' = calls + 1
    /\ meta_df' = meta_df_after_boost(meta_df, user_pref_genres)
    /\ UNCHANGED <<user_pref_genres, boost_factor, tieOrder>>
    /\ UNCHANGED dashVars
    /\ UNCHANGED <<model_data, notice>>
    /\ UNCHANGED gr_frame
    /\ UNCHANGED accountVars

DashIdle ==
    /\ movies_df = <<>>
    /\ final_recs = <<>>
    /\ watched = <<>>
    /\ res = NoResult

\* A model with no entry for any user.
NoModel == [outcome |-> "absent", items |-> <<>>]

\* No call of get_genre_recommendations is in progress.
NoCall == [pc |-> "idle"]

HandlerIdle ==
    /\ model_data = NoModel
    /\ uncaught = ""
    /\ notice = ""
    /\ gr_frame = NoCall

\* The browser sessions open at the same time.
Sessions == {1, 2}

\* st.session_state of a session: logged_in and username.
SessionState(logged_in, username) == [logged_in |-> logged_in, username |-> username]

\* Lines 567-570: a new session is logged out, its username the empty string.
NewSession == SessionState(FALSE, <<>>)

\* The user store: the sqlite users table or the users.csv file, rows in
\* insertion order.
UserStore(kind, rows) == [kind |-> kind, rows |-> rows]

\* No mark_watched call is in progress in a session.
NoMark == [pc |-> "idle", user |-> <<>>, title |-> "", found |-> FALSE]

\* The table's UNIQUE(username, movie_title) constraint and the calls in progress.
MarkFrames(unique, at) == [unique |-> unique, at |-> at]

AccountIdle ==
    /\ users = UserStore("sqlite", <<>>)
    /\ session = [s \in Sessions |-> NewSession]
    /\ mw_frame = MarkFrames(FALSE, [s \in Sessions |-> NoMark])

InitBoost ==
    /\ recs_df \in BaseLists
    /\ user_pref_genres \in PrefChoices
    /\ meta_df = BoostCatalog
    /\ boost_factor \in BoostFactors
    /\ tieOrder \in BoostTieOrders
    /\ boosted = NoFrame
    /\ prev_boosted = NoFrame
    /\ key_error = FALSE
    /\ calls = 0
    /\ DashIdle
    /\ HandlerIdle
    /\ AccountIdle

NextBoost == GetPersonalizedRecommendations

SpecBoost == InitBoost /\ [][NextBoost]_vars

----------------------------------------------------------------------------
(* Dashboard actions *)

\* Every interaction starts a new run of the script: what the last run drew is gone.
Rerun ==
    /\ res # NoResult
    /\ res' = NoResult
    /\ UNCHANGED <<movies_df, final_recs, watched, tieOrder>>
    /\ UNCHANGED boostVars
    /\ UNCHANGED handlerVars
    /\ UNCHANGED gr_frame
    /\ UNCHANGED accountVars

\* The "Watched" button of a card: mark_watched, then st.rerun() redraws the page.
MarkWatched(u, t) ==
    /\ res = NoResult
    /\ Len(watched) < MaxWatched
    /\ t \in Range(Titles(movies_df))
    /\ watched' = mark_watched(u, t)
    /\ res' = NoResult
    /\ UNCHANGED <<movies_df, final_recs, tieOrder>>
    /\ UNCHANGED boostVars
    /\ UNCHANGED handlerVars
    /\ UNCHANGED gr_frame
    /\ UNCHANGED accountVars

\* A call of get_top_genres(username, k).
GetTopGenres(u, k) ==
    /\ res = NoResult
    /\ res' = Result("top_genres", u, k, get_top_genres(u, k), <<>>, FALSE, FALSE)
    /\ UNCHANGED <<movies_df, final_recs, watched, tieOrder>>
    /\ UNCHANGED boostVars
    /\ UNCHANGED handlerVars
    /\ UNCHANGED gr_frame
    /\ UNCHANGED accountVars

\* The Recommendations tab of lines 618-632, drawn for user u.
RecommendationsTab(u, top_n) ==
    /\ res = NoResult
    /\ LET raised == ~ModelHasInt(u) /\ get_genre_recommendations_raises(u)
           rec_titles == IF raised THEN <<>> ELSE TabRecTitles(u, top_n)
       IN /\ res' = Result("tab", u, top_n, rec_titles, CardsShown(rec_titles),
                           raised, ModelHasInt(u))
          /\ movies_df' = movies_df_after_order(movies_df, rec_titles)
    /\ UNCHANGED <<final_recs, watched, tieOrder>>
    /\ UNCHANGED boostVars
    /\ UNCHANGED handlerVars
    /\ UNCHANGED gr_frame
    /\ UNCHANGED accountVars

\* The Recommendations tab of lines 2804-2823, which removes watched titles.
RecommendationsTabFiltered(u, top_n) ==
    /\ res = NoResult
    /\ LET raised == ~ModelHasInt(u) /\ filtered_genre_recommendations_raises(u)
           base == IF ModelHasInt(u) THEN final_recs[IntKey(IntOf(u))]
                   ELSE IF raised THEN <<>>
                   ELSE filtered_genre_recommendations(u, top_n)
           recs == RemoveWatched(base, u)
       IN res' = WithReasons(Result("tab_filtered", u, top_n, recs,
                                    Titles(IsIn(movies_df, Range(recs))), raised,
                                    ModelHasInt(u)),
                             IF raised THEN <<>> ELSE build_reason_map(u, recs))
    /\ UNCHANGED <<movies_df, final_recs, watched, tieOrder>>
    /\ UNCHANGED boostVars
    /\ UNCHANGED handlerVars
    /\ UNCHANGED gr_frame
    /\ UNCHANGED accountVars

\* A call of get_combined_recommendations(username, top_n), lines 3702-3725.
GetCombinedRecommendations(u, top_n) ==
    /\ res = NoResult
    /\ LET raised == get_genre_top_rated_raises(CombinedTopGenres(u))
           ranked == IF raised THEN <<>> ELSE get_combined_recommendations(u, top_n)
       IN res' = Result("combined", u, top_n, ranked, ranked, raised,
                        StrKey(u) \in DOMAIN final_recs)
    /\ UNCHANGED <<movies_df, final_recs, watched, tieOrder>>
    /\ UNCHANGED boostVars
    /\ UNCHANGED handlerVars
    /\ UNCHANGED gr_frame
    /\ UNCHANGED accountVars

BoostIdle ==
    /\ recs_df = <<>>
    /\ user_pref_genres = <<>>
    /\ meta_df = <<>>
    /\ boost_factor = 1
    /\ boosted = NoFrame
    /\ prev_boosted = NoFrame
    /\ key_error = FALSE
    /\ calls = 0

\* Only rows with equal ratings can come out of sort_values in another order:
\* a catalog without them is sorted the same way by every build.
HasEqualRatings(df) ==
    \E i, j \in 1..Len(df) : i # j /\ df[i].avg_rating = df[j].avg_rating

Init ==
    /\ movies_df \in Catalogs
    /\ final_recs \in FinalRecsChoices
    /\ tieOrder \in IF HasEqualRatings(movies_df) THEN TieOrders ELSE {<<1, 2, 3>>}
    /\ watched = <<>>
    /\ res = NoResult
    /\ BoostIdle
    /\ HandlerIdle
    /\ AccountIdle

Next ==
    \/ Rerun
    \/ \E u \in Usernames, t \in AllTitles : MarkWatched(u, t)
    \/ \E u \in Usernames, k \in 0..TopGenresK : GetTopGenres(u, k)
    \/ \E u \in Usernames, top_n \in 1..MaxTopN : RecommendationsTab(u, top_n)
    \/ \E u \in Usernames, top_n \in 1..MaxTopN : RecommendationsTabFiltered(u, top_n)
    \/ \E u \in Usernames, top_n \in 1..MaxTopN : GetCombinedRecommendations(u, top_n)

Spec == Init /\ [][Next]_vars

----------------------------------------------------------------------------
(* Properties of the dashboard *)

IsRecommendation == res.op \in {"tab", "tab_filtered", "combined"} /\ ~res.raised

\* C1 (as claimed): the list a recommend operation returns or shows has at most
\* `limit` entries and holds no title the user had watched at the time of the call.
C1_AtMostLimitAndNoneWatched ==
    IsRecommendation =>
        /\ Len(res.shown) <= res.n
        /\ \A i \in 1..Len(res.shown) : res.shown[i] \notin res.seen

\* Genres of the catalog rows whose title the user has watched, as sets.
GenreSetOf(row) ==
    IF row.genres_clean = NaN THEN {} ELSE Range(Split(row.genres_clean, "|"))

SeenRows == {i \in 1..Len(movies_df) : movies_df[i].title \in res.seen}

SeenGenres == UNION {GenreSetOf(movies_df[i]) : i \in SeenRows}

SeenCount(g) == Cardinality({i \in SeenRows : g \in GenreSetOf(movies_df[i])})

FirstSeenRow(g) ==
    CHOOSE i \in SeenRows :
        g \in GenreSetOf(movies_df[i])
        /\ \A j \in SeenRows : g \in GenreSetOf(movies_df[j]) => i <= j

\* g is met before h when the watched titles are scanned in catalog order.
MetBefore(g, h) ==
    \/ FirstSeenRow(g) < FirstSeenRow(h)
    \/ /\ FirstSeenRow(g) = FirstSeenRow(h)
       /\ FirstPos(Split(movies_df[FirstSeenRow(g)].genres_clean, "|"), g)
            < FirstPos(Split(movies_df[FirstSeenRow(g)].genres_clean, "|"), h)

RanksAhead(g, h) ==
    SeenCount(g) > SeenCount(h) \/ (SeenCount(g) = SeenCount(h) /\ MetBefore(g, h))

\* C8: get_top_genres returns the k genres with the highest counts over the
\* user's watched titles (one count per watched title and genre), genres with
\* equal counts in the order they are first met scanning the watched titles in
\* catalog order, whatever the order the titles were marked in.
C8_TopGenresByCountThenCatalogOrder ==
    res.op = "top_genres" =>
        /\ Range(res.titles) \subseteq SeenGenres
        /\ \A i, j \in 1..Len(res.titles) : i < j => RanksAhead(res.titles[i], res.titles[j])
        /\ \A g \in SeenGenres \ Range(res.titles) :
              /\ Len(res.titles) = res.n
              /\ \A i \in 1..Len(res.titles) : RanksAhead(res.titles[i], g)

CatalogIndex(t) == CHOOSE i \in 1..Len(movies_df) : movies_df[i].title = t

\* Two genres tie and the titles were marked in an order other than the catalog's.
C8_Witness ==
    /\ res.op = "top_genres"
    /\ Len(res.titles) >= 2
    /\ SeenCount(res.titles[1]) = SeenCount(res.titles[2])
    /\ FirstSeenRow(res.titles[1]) < FirstSeenRow(res.titles[2])
    /\ \E i, j \in 1..Len(get_watched(res.user)) :
          /\ i < j
          /\ get_watched(res.user)[i] = movies_df[FirstSeenRow(res.titles[2])].title
          /\ get_watched(res.user)[j] = movies_df[FirstSeenRow(res.titles[1])].title

\* C9: the profile has at most k genres, none twice, fewer than k only when the
\* watched titles span fewer than k genres; it is empty for k = 0 and for a user
\* without watched records.
C9_TopGenresAtMostK ==
    res.op = "top_genres" =>
        /\ Len(res.titles) <= res.n
        /\ \A i, j \in 1..Len(res.titles) : i # j => res.titles[i] # res.titles[j]
        /\ Len(res.titles) < res.n => Len(res.titles) = Cardinality(SeenGenres)
        /\ res.n = 0 => res.titles = <<>>
        /\ res.seen = {} => res.titles = <<>>

\* The watched titles span more than k genres and the profile is cut to k > 0.
C9_Witness ==
    /\ res.op = "top_genres"
    /\ res.n > 0
    /\ Cardinality(SeenGenres) > res.n
    /\ Len(res.titles) = res.n

RatingOf(t) == movies_df[CatalogIndex(t)].avg_rating

\* r lists, best rating first, the `limit` best rows of the set S of catalog rows.
IsTopRated(r, S, limit) ==
    /\ Len(r) = Min2(limit, Cardinality(S))
    /\ \A i \in 1..Len(r) : \E k \in S : movies_df[k].title = r[i]
    /\ \A i, j \in 1..Len(r) : i < j => r[i] # r[j] /\ RatingOf(r[i]) >= RatingOf(r[j])
    /\ \A k \in S : movies_df[k].title \notin Range(r) =>
          \A i \in 1..Len(r) : RatingOf(r[i]) >= movies_df[k].avg_rating

ModelListOf(u) == final_recs[IntKey(IntOf(u))]

UnwatchedRows == {k \in 1..Len(movies_df) : movies_df[k].title \notin res.seen}

TopGenreRows ==
    {k \in UnwatchedRows :
        \E g \in Range(get_top_genres(res.user, TopGenresK)) :
            IsSubstring(g, FillNa(movies_df[k].genres_clean))}

----------------------------------------------------------------------------
(* Properties of boost_recommendations (SpecBoost) *)

\* Denominator of the score_boosted numerators.
BoostedDen == BoostDen * PrefDen(user_pref_genres)

\* The boosted score an entry is returned with: its score_boosted, or its
\* score where the frame has no such column.
BoostedOf(row) ==
    IF "score_boosted" \in boosted.columns THEN row.score_boosted
    ELSE row.score * BoostedDen

\* C2 (as claimed): with an empty preference list the entries come back in the
\* input order with the input scores, each with an overlap field equal to 0 and
\* a boosted score equal to its score, and the caller reads both without error.
C2_EmptyPrefsKeepsOrderAndAddsZeroOverlap ==
    (calls >= 1 /\ user_pref_genres = <<>>) =>
        /\ Len(boosted.rows) = Len(recs_df)
        /\ \A i \in 1..Len(boosted.rows) :
              /\ boosted.rows[i].movie_id = recs_df[i].movie_id
              /\ boosted.rows[i].score = recs_df[i].score
        /\ {"overlap", "score_boosted"} \subseteq boosted.columns
        /\ \A i \in 1..Len(boosted.rows) :
              /\ boosted.rows[i].overlap = 0
              /\ boosted.rows[i].score_boosted = boosted.rows[i].score * BoostedDen
        /\ ~key_error

\* The entries as they stand before the sort, in base-list order.
EntriesBeforeSort ==
    IF user_pref_genres = <<>> THEN boosted.rows
    ELSE BoostedUnsorted(recs_df, user_pref_genres, meta_df, boost_factor)

WithBoosted(rows, b) == SelectSeq(rows, LAMBDA r : BoostedOf(r) = b)

\* C3 (as claimed): the entries come back in descending order of boosted score,
\* and entries with equal boosted score keep the relative order of the base list.
C3_SortedDescendingAndStable ==
    calls >= 1 =>
        /\ \A i, j \in 1..Len(boosted.rows) :
              i < j => BoostedOf(boosted.rows[i]) >= BoostedOf(boosted.rows[j])
        /\ \A i \in 1..Len(boosted.rows) :
              WithBoosted(boosted.rows, BoostedOf(boosted.rows[i]))
                = WithBoosted(EntriesBeforeSort, BoostedOf(boosted.rows[i]))

\* genres(entry): the genres of the catalog row(s) of the entry's id.
GenresOfId(m) ==
    UNION {Range(genres_list(meta_df[k].genres_clean)) :
              k \in {k \in 1..Len(meta_df) : meta_df[k].movie_id = m}}

BaseScores == {recs_df[i].score : i \in 1..Len(recs_df)}

\* max − min over the base list, 1e-6 when all scores are equal or there are
\* fewer than two entries.
ClaimedRange ==
    IF Len(recs_df) < 2 \/ Cardinality(BaseScores) = 1 THEN MinRange
    ELSE MaxScore(recs_df) - MinScore(recs_df)

\* C4 (as claimed): every entry gets overlap = |genres ∩ prefs| / max(|prefs|, 1)
\* and boosted = score + boost_factor × score_range × overlap, score_range being
\* max − min, or 1e-6 when all scores are equal or there are fewer than 2 entries.
C4_OverlapAndBoostedScoreFormula ==
    calls >= 1 =>
        /\ {"overlap", "score_boosted"} \subseteq boosted.columns
        /\ \A i \in 1..Len(boosted.rows) :
              LET r == boosted.rows[i]
                  ov == Cardinality(GenresOfId(r.movie_id) \cap Range(user_pref_genres))
              IN /\ r.overlap = ov
                 /\ r.score_boosted = r.score * BoostedDen + boost_factor * ClaimedRange * ov

CountId(rows, m) == Cardinality({i \in 1..Len(rows) : rows[i].movie_id = m})

CodeRange == Max2(MinRange, MaxScore(recs_df) - MinScore(recs_df))

\* C6: the boost never lowers a score and never adds more than
\* boost_factor × score_range (the code's score_range, at least 1e-6); so an
\* entry A placed ahead of an entry B in the base list stays ahead of B whenever
\* score(A) − score(B) > boost_factor × score_range.
C6_BoostBoundedLargeGapsKeepRank ==
    calls >= 1 =>
        /\ \A i \in 1..Len(boosted.rows) :
              /\ boosted.rows[i].score * BoostedDen <= BoostedOf(boosted.rows[i])
              /\ BoostedOf(boosted.rows[i])
                    <= boosted.rows[i].score * BoostedDen
                       + boost_factor * CodeRange * PrefDen(user_pref_genres)
        /\ \A q, p \in 1..Len(boosted.rows) :
              (/\ q < p
               /\ (boosted.rows[p].score - boosted.rows[q].score) * BoostDen
                     > boost_factor * CodeRange)
              => \E i, j \in 1..Len(recs_df) :
                    /\ i < j
                    /\ recs_df[i].movie_id = boosted.rows[q].movie_id
                    /\ recs_df[i].score = boosted.rows[q].score
                    /\ recs_df[j].movie_id = boosted.rows[p].movie_id
                    /\ recs_df[j].score = boosted.rows[p].score

\* The specification's scenario: (2, 4.5) and (3, 3.0), profile [Action],
\* boost_factor 0.25: entry 3 is boosted to 3.375 and entry 2 stays first.
C6_Witness ==
    /\ calls >= 1
    /\ recs_df = << [movie_id |-> 2, score |-> 9000000], [movie_id |-> 3, score |-> 6000000] >>
    /\ user_pref_genres = << <<"a">> >>
    /\ boost_factor = 1
    /\ Len(boosted.rows) = 2
    /\ boosted.rows[1].movie_id = 2
    /\ boosted.rows[1].score_boosted = 9000000 * BoostDen
    /\ boosted.rows[2].movie_id = 3
    /\ boosted.rows[2].score_boosted = 6000000 * BoostDen + 3000000

----------------------------------------------------------------------------
(* The later dashboards: the plain-INSERT store, unwatch_movie and the      *)
(* recommenders that look final_recs up by username                         *)

\* A store operation as the last thing a run did; had is the number of rows
\* the table held for (u, t) when the operation was called.
StoreResult(op, u, t, had) == [op |-> op, user |-> u, title |-> t, had |-> had]

CountRows(u, t) == Cardinality({i \in 1..Len(watched) : watched[i] = WatchedRow(u, t)})

\* mark_watched as a plain INSERT into a table without a UNIQUE constraint.
mark_watched_insert(u, t) == Append(watched, WatchedRow(u, t))

\* DELETE ... WHERE username=? alone: every title of the user goes.
unwatch_all_titles(u, t) == SelectSeq(watched, LAMBDA r : r.username # u)

\* DELETE that stops after the first matching row.
unwatch_movie_first(u, t) ==
    IF CountRows(u, t) = 0 THEN watched
    ELSE LET i == CHOOSE i \in 1..Len(watched) :
                    /\ watched[i] = WatchedRow(u, t)
                    /\ \A j \in 1..(i-1) : watched[j] # WatchedRow(u, t)
         IN SubSeq(watched, 1, i - 1) \o SubSeq(watched, i + 1, Len(watched))

\* DELETE FROM watched WHERE username=? AND movie_title=?
unwatch_movie(u, t) == SelectSeq(watched, LAMBDA r : r # WatchedRow(u, t))

GenreTopK == 3          \* most_common(3) of the username-keyed recommenders

\* The row loop of get_genre_recommendations, lines 1371-1378: rows in catalog
\* order, watched titles skipped, row['genres'].split('|') raising on a NaN cell
\* once there is a genre to test, the loop left when top_n titles are collected.
RECURSIVE ScanRows(_, _, _, _, _)
ScanRows(rows, w, top_genres, top_n, recs) ==
    IF rows = <<>> THEN [recs |-> recs, raised |-> FALSE]
    ELSE IF Head(rows).title \in w THEN ScanRows(Tail(rows), w, top_genres, top_n, recs)
    ELSE IF top_genres # <<>> /\ Head(rows).genres_clean = NaN
         THEN [recs |-> recs, raised |-> TRUE]
    ELSE LET hit == \E i \in 1..Len(top_genres) :
                        top_genres[i] \in Range(Split(Head(rows).genres_clean, "|"))
             recs2 == IF hit THEN Append(recs, Head(rows).title) ELSE recs
         IN IF Len(recs2) >= top_n THEN [recs |-> recs2, raised |-> FALSE]
            ELSE ScanRows(Tail(rows), w, top_genres, top_n, recs2)

\* get_genre_recommendations of lines 1361-1378: [recs, raised].
final_recs_genre_recommendations(u, top_n) ==
    IF get_watched(u) = <<>>
    THEN [recs |-> Head_n(HybridRecs(u), top_n), raised |-> FALSE]
    ELSE ScanRows(movies_df, Range(get_watched(u)),
                  MostCommon(ExplodeGenresKeepNaN(IsIn(movies_df, Range(get_watched(u)))),
                             GenreTopK),
                  top_n, <<>>)

\* ['genres_clean'].str.split(',').explode() over the watched rows of the catalog.
MergeWatchedGenres(u) ==
    LET df == IsIn(movies_df, Range(get_watched(u)))
    IN Flatten([i \in 1..Len(df) |->
          IF df[i].genres_clean = NaN THEN <<NaN>> ELSE Split(df[i].genres_clean, ",")])

\* g.strip() raises on a NaN genre; `g in row['genres_clean']` raises on a NaN cell.
merge_combined_raises(u) ==
    LET raw == MostCommon(MergeWatchedGenres(u), GenreTopK)
    IN \/ NaN \in Range(raw)
       \/ raw # <<>> /\ \E i \in 1..Len(movies_df) : movies_df[i].genres_clean = NaN

\* get_combined_recommendations of lines 3145-3167.
merge_combined_recommendations(u, top_n) ==
    LET raw == MostCommon(MergeWatchedGenres(u), GenreTopK)
        top_genres == [i \in 1..Len(raw) |-> Strip(raw[i])]
        genre_recs == Titles(SelectSeq(movies_df, LAMBDA r :
                         /\ AnyGenreIn(top_genres, r.genres_clean)
                         /\ r.title \notin Range(get_watched(u))))
        combined == Dedup(HybridRecs(u) \o genre_recs)
    IN Head_n(Titles(SortByRating(IsIn(movies_df, Range(combined)))), top_n)

\* Catalogs of the store runs: the scenario's, an empty one, one with a NaN cell.
StoreCatalogs == {
    << Row("A", <<"a">>, 40), Row("B", <<"c">>, 45), Row("C", <<"a", "|", "d">>, 30) >>,
    << >>,
    << Row("A", <<"a">>, 50), Row("B", <<"a", "b">>, 40), Row("C", NaN, 30) >>
}

\* users.db outlives the catalog file: what an earlier session left in the table.
PersistedWatched == { << >>, << WatchedRow(<<"b">>, "Z") >> }

StoreTitles == {"A", "B", "C", "Z"}

\* The "Watched" button of the Top Rated tab, lines 1677-1684: drawn for every
\* row, watched or not.
MarkWatchedInsert(u, t) ==
    /\ res = NoResult
    /\ Len(watched) < MaxWatched
    /\ t \in Range(Titles(movies_df))
    /\ watched' = mark_watched_insert(u, t)
    /\ res' = StoreResult("mark_insert", u, t, CountRows(u, t))
    /\ UNCHANGED <<movies_df, final_recs, tieOrder>>
    /\ UNCHANGED boostVars
    /\ UNCHANGED handlerVars
    /\ UNCHANGED gr_frame
    /\ UNCHANGED accountVars

\* A call of unwatch_movie(u, t).
UnwatchMovie(u, t) ==
    /\ res = NoResult
    /\ watched' = unwatch_movie(u, t)
    /\ res' = StoreResult("unwatch", u, t, CountRows(u, t))
    /\ UNCHANGED <<movies_df, final_recs, tieOrder>>
    /\ UNCHANGED boostVars
    /\ UNCHANGED handlerVars
    /\ UNCHANGED gr_frame
    /\ UNCHANGED accountVars

\* "Your Recommendations" of lines 1418-1423.
FinalRecsGenreRecommendations(u, top_n) ==
    /\ res = NoResult
    /\ LET out == final_recs_genre_recommendations(u, top_n)
       IN res' = Result("final_recs_genre", u, top_n, out.recs, out.recs, out.raised,
                        StrKey(u) \in DOMAIN final_recs)
    /\ UNCHANGED <<movies_df, final_recs, watched, tieOrder>>
    /\ UNCHANGED boostVars
    /\ UNCHANGED handlerVars
    /\ UNCHANGED gr_frame
    /\ UNCHANGED accountVars

\* The Recommendations tab of lines 3236-3248.
MergeCombinedRecommendations(u, top_n) ==
    /\ res = NoResult
    /\ LET raised == merge_combined_raises(u)
           recs == IF raised THEN <<>> ELSE merge_combined_recommendations(u, top_n)
       IN res' = Result("merge_combined", u, top_n, recs, recs, raised,
                        StrKey(u) \in DOMAIN final_recs)
    /\ UNCHANGED <<movies_df, final_recs, watched, tieOrder>>
    /\ UNCHANGED boostVars
    /\ UNCHANGED handlerVars
    /\ UNCHANGED gr_frame
    /\ UNCHANGED accountVars

InitStore ==
    /\ movies_df \in StoreCatalogs
    /\ final_recs \in FinalRecsChoices
    /\ tieOrder = <<1, 2, 3>>
    /\ watched \in PersistedWatched
    /\ res = NoResult
    /\ BoostIdle
    /\ HandlerIdle
    /\ AccountIdle

NextStore ==
    \/ Rerun
    \/ \E u \in Usernames, t \in AllTitles : MarkWatched(u, t)
    \/ \E u \in Usernames, t \in AllTitles : MarkWatchedInsert(u, t)
    \/ \E u \in Usernames, t \in StoreTitles : UnwatchMovie(u, t)
    \/ \E u \in Usernames, top_n \in 1..MaxTopN : RecommendationsTab(u, top_n)
    \/ \E u \in Usernames, top_n \in 1..MaxTopN : GetCombinedRecommendations(u, top_n)
    \/ \E u \in Usernames, top_n \in 1..MaxTopN : FinalRecsGenreRecommendations(u, top_n)
    \/ \E u \in Usernames, top_n \in 1..MaxTopN : MergeCombinedRecommendations(u, top_n)

SpecStore == InitStore /\ [][NextStore]_vars

----------------------------------------------------------------------------
(* Properties of the store runs (SpecStore) *)

\* C11 (as claimed): for a user with no watched records and no model list the
\* affinity profile is empty and the recommendation is the globally top-rated
\* titles, by descending rating and at most the limit; it is not empty as long
\* as the catalog is not empty.
C11_NoHistoryNoModelGetsTopRated ==
    (/\ res.op \in {"tab", "combined", "final_recs_genre", "merge_combined"}
     /\ res.seen = {}
     /\ ~res.hit) =>
        /\ get_top_genres(res.user, TopGenresK) = <<>>
        /\ ~res.raised
        /\ IsTopRated(res.titles, 1..Len(movies_df), res.n)
        /\ movies_df # <<>> => res.titles # <<>>

\* C12 (as claimed): with an empty catalog the fallback recommender and
\* recommend show an empty list and raise no error, for every user and every
\* watched set, also one that names titles absent from the catalog.
C12_EmptyCatalogGivesEmptyListNoError ==
    (/\ res.op \in {"tab", "combined", "final_recs_genre", "merge_combined"}
     /\ movies_df = <<>>) =>
        /\ ~res.raised
        /\ res.shown = <<>>

\* C13 (as claimed): the watched store has set semantics: after any sequence of
\* mark_watched calls it holds at most one record per (username, title), and
\* mark_watched(u, t) on a pair already recorded leaves the store unchanged, in
\* every variant of mark_watched and for every way the UI triggers it.
C13_MarkWatchedIdempotentNoDuplicates ==
    /\ \A u \in Usernames, t \in StoreTitles : CountRows(u, t) <= 1
    /\ (res.op = "mark_insert" /\ res.had > 0) => CountRows(res.user, res.title) = res.had

\* C14: unwatch_movie is idempotent: called for a pair without a record it
\* leaves the store unchanged, a second call in a row leaves the store as the
\* first left it, and after the call the title is not in get_watched(u), also
\* when the pair had been recorded more than once.
C14_UnwatchIdempotentRemovesAllRows ==
    [][\A u \in Usernames, t \in StoreTitles :
          UnwatchMovie(u, t) =>
              /\ t \notin Range(get_watched(u))'
              /\ CountRows(u, t) = 0 => watched' = watched
              /\ unwatch_movie(u, t)' = watched']_vars

\* unwatch_movie has removed a pair that was recorded twice.
C14_Witness ==
    /\ res.op = "unwatch"
    /\ res.had >= 2
    /\ res.title \notin Range(get_watched(res.user))

----------------------------------------------------------------------------
(* The "Get personalized recommendations" handler from the model call on,   *)
(* lines 308-362                                                            *)

\* One element of the list the model returns.  shape tells a 3-tuple, a
\* 2-tuple, a shorter tuple and a value that is no tuple apart; bad names the
\* field on which int() / float() raise ValueError ("" when both convert).
Item(shape, id, score, bad) == [shape |-> shape, id |-> id, score |-> score, bad |-> bad]

ItemChoices == {
    Item("pair", 2, 9000000, ""),
    Item("pair", 3, 6000000, ""),
    Item("pair", 4, 6000000, ""),
    Item("triple", 3, 6000001, ""),
    Item("pair", 2, 0, "score"),
    Item("pair", 0, 6000000, "id"),
    Item("short", 2, 0, ""),
    Item("scalar", 2, 0, "")
}

ModelChoices ==
    {[outcome |-> "raises", items |-> <<>>], [outcome |-> "absent", items |-> <<>>]}
    \cup {[outcome |-> "ok", items |-> it] :
            it \in UNION {[1..n -> ItemChoices] : n \in 0..MaxRecs}}

\* The model call without the try/except and the membership test around it.
base_recommendations_unguarded(md) ==
    [recs |-> IF md.outcome = "ok" THEN md.items ELSE <<>>,
     notice |-> "",
     uncaught |-> IF md.outcome = "raises" THEN "Exception"
                  ELSE IF md.outcome = "absent" THEN "KeyError"
                  ELSE ""]

\* Lines 310-328: the model's list, or [] with an st.error when the model
\* raises or has no entry for the user.
base_recommendations(md) ==
    [recs |-> IF md.outcome = "ok" THEN md.items ELSE <<>>,
     notice |-> IF md.outcome = "raises" THEN "Failed to get base recommendations from model"
                ELSE IF md.outcome = "absent"
                     THEN "No recommendations found for this user in the saved model."
                ELSE "",
     uncaught |-> ""]

\* The loop of lines 333-347 converts the fields of every tuple of two or more
\* elements; a field that does not convert raises ValueError out of the loop.
normalize_raises(recs) ==
    \E i \in 1..Len(recs) : recs[i].shape \in {"pair", "triple"} /\ recs[i].bad # ""

\* rec_rows: one row per tuple of two or more elements, in order.
rec_rows(recs) ==
    LET tuples == SelectSeq(recs, LAMBDA it : it.shape \in {"pair", "triple"})
    IN [i \in 1..Len(tuples) |-> [movie_id |-> tuples[i].id, score |-> tuples[i].score]]

HandlerPrefs == { <<>>, << <<"a">> >> }

\* One press of "Get personalized recommendations".
PersonalizedRecommendationsRequest ==
    /\ calls < 1
    /\ LET base == base_recommendations(model_data)
           failed == base.uncaught # "" \/ normalize_raises(base.recs)
           rows == IF failed THEN <<>> ELSE rec_rows(base.recs)
           out == IF rows = <<>> THEN NoFrame
                  ELSE boost_recommendations(rows, user_pref_genres, meta_df, boost_factor)
       IN /\ recs_df' = rows
          /\ boosted' = out
          /\ key_error' = (rows # <<>> /\ DisplayKeyError(out))
          /\ uncaught' = IF base.uncaught # "" THEN base.uncaught
                         ELSE IF normalize_raises(base.recs) THEN "ValueError"
                         ELSE IF rows = <<>> THEN ""
                         ELSE DisplayError(out)
          /\ notice' = IF failed THEN base.notice
                       ELSE IF rows = <<>> THEN "No recommendations returned by the model."
                       ELSE "Top recommendations (boosted by your genres)"
    /\ prev_boosted' = boosted
    /\ calls' = calls + 1
    /\ UNCHANGED <<model_data, user_pref_genres, meta_df, boost_factor, tieOrder>>
    /\ UNCHANGED dashVars
    /\ UNCHANGED gr_frame
    /\ UNCHANGED accountVars

RecommendTopN == 10     \* recommend_movies(user_id, model, movies_df, top_n=10)

\* recommend_movies of lines 978-986 on a list of (movie_id, score) pairs:
\* the rows by descending score, cut to top_n.
recommend_movies(md) ==
    IF md.outcome = "absent" THEN <<>>
    ELSE Head_n(Take(rec_rows(md.items),
                     QuickArgsortDesc([i \in 1..Len(md.items) |-> md.items[i].score])),
                RecommendTopN)

\* One press of "Recommend", lines 1024-1027, for a model that is a dict of
\* lists of well-formed pairs.
Recommend ==
    /\ calls < 1
    /\ model_data.outcome \in {"absent", "ok"}
    /\ \A i \in 1..Len(model_data.items) :
          model_data.items[i].shape = "pair" /\ model_data.items[i].bad = ""
    /\ recs_df' = recommend_movies(model_data)
    /\ notice' = IF model_data.outcome = "absent" THEN "User not found in model!" ELSE ""
    /\ uncaught' = ""
    /\ calls' = calls + 1
    /\ UNCHANGED <<model_data, user_pref_genres, meta_df, boost_factor, tieOrder,
                   boosted, prev_boosted, key_error>>
    /\ UNCHANGED dashVars
    /\ UNCHANGED gr_frame
    /\ UNCHANGED accountVars

InitHandler ==
    /\ model_data \in ModelChoices
    /\ user_pref_genres \in HandlerPrefs
    /\ meta_df = BoostCatalog
    /\ boost_factor = 1
    /\ tieOrder = <<1, 2, 3>>
    /\ recs_df = <<>>
    /\ boosted = NoFrame
    /\ prev_boosted = NoFrame
    /\ key_error = FALSE
    /\ calls = 0
    /\ uncaught = ""
    /\ notice = ""
    /\ gr_frame = NoCall
    /\ DashIdle
    /\ AccountIdle

NextHandler ==
    \/ PersonalizedRecommendationsRequest
    \/ Recommend

SpecHandler == InitHandler /\ [][NextHandler]_vars

----------------------------------------------------------------------------
(* get_genre_recommendations of lines 460-475 step by step: the sessions of  *)
(* one user run in threads of their own on the same users.db, so a           *)
(* mark_watched of another session can commit between two SELECTs of a call  *)

\* The locals of a call: watched is the set read at line 465, profiled the
\* set get_top_genres read at line 451 (the same read when the call returned
\* at line 467 without calling get_top_genres).
CallFrame(pc, u, top_n, w, profiled, titles, raised) ==
    [pc |-> pc, user |-> u, top_n |-> top_n, watched |-> w, profiled |-> profiled,
     titles |-> titles, raised |-> raised]

\* Lines 465-467: watched = set(get_watched(username)); without history the
\* call returns the top-rated titles at once.
GetGenreRecommendationsReadWatched(u, top_n) ==
    /\ gr_frame = NoCall
    /\ gr_frame' =
         IF get_watched(u) = <<>>
         THEN CallFrame("done", u, top_n, {}, {},
                        Head_n(Titles(SortByRating(movies_df)), top_n), FALSE)
         ELSE CallFrame("top_genres", u, top_n, Range(get_watched(u)), {}, <<>>, FALSE)
    /\ UNCHANGED <<movies_df, final_recs, watched, tieOrder, res>>
    /\ UNCHANGED boostVars
    /\ UNCHANGED handlerVars
    /\ UNCHANGED accountVars

\* Lines 469-475: get_top_genres reads the table again; the candidates are the
\* rows whose title is not in the set read at line 465.
GetGenreRecommendationsRank ==
    /\ gr_frame.pc = "top_genres"
    /\ LET top_genres == get_top_genres(gr_frame.user, TopGenresK)
           cand == NotIn(movies_df, gr_frame.watched)
           raised == EmptyMaskKeyError(cand)
           kept == SelectSeq(cand, LAMBDA r : AnyGenreIn(top_genres, FillNa(r.genres_clean)))
       IN gr_frame' = CallFrame("done", gr_frame.user, gr_frame.top_n, gr_frame.watched,
                                Range(get_watched(gr_frame.user)),
                                IF raised THEN <<>>
                                ELSE Head_n(Titles(SortByRating(kept)), gr_frame.top_n),
                                raised)
    /\ UNCHANGED <<movies_df, final_recs, watched, tieOrder, res>>
    /\ UNCHANGED boostVars
    /\ UNCHANGED handlerVars
    /\ UNCHANGED accountVars

\* The call is over and its locals are gone.
GetGenreRecommendationsReturn ==
    /\ gr_frame.pc = "done"
    /\ gr_frame' = NoCall
    /\ UNCHANGED <<movies_df, final_recs, watched, tieOrder, res>>
    /\ UNCHANGED boostVars
    /\ UNCHANGED handlerVars
    /\ UNCHANGED accountVars

SnapshotCatalogs == {
    << Row("A", <<"a">>, 40), Row("B", <<"c">>, 45), Row("C", <<"a", "|", "d">>, 30) >>,
    << Row("A", <<"a", "|", "c", "|", "d">>, 50), Row("B", <<"e", "|", "f">>, 40),
       Row("C", <<"f">>, 45), Row("D", <<"a">>, 20), Row("E", <<"a", "|", "f">>, 35) >>
}

InitSnapshot ==
    /\ movies_df \in SnapshotCatalogs
    /\ final_recs = << >>
    /\ tieOrder = <<1, 2, 3>>
    /\ watched = <<>>
    /\ res = NoResult
    /\ BoostIdle
    /\ HandlerIdle
    /\ AccountIdle

NextSnapshot ==
    \/ \E u \in Usernames, t \in AllTitles : MarkWatched(u, t)
    \/ \E u \in Usernames, top_n \in 1..MaxTopN : GetGenreRecommendationsReadWatched(u, top_n)
    \/ GetGenreRecommendationsRank
    \/ GetGenreRecommendationsReturn

SpecSnapshot == InitSnapshot /\ [][NextSnapshot]_vars

----------------------------------------------------------------------------
(* The Recommendations tab that re-ranks the model's list by genre_score,    *)
(* lines 1690-1726, and the runs in which the catalog frames are shared      *)

\* genre_score raises TypeError on a NaN cell, or on a NaN genre, once there is
\* a genre to test.
genre_score_raises(top_genres, rec_df) ==
    /\ rec_df # <<>>
    /\ top_genres # <<>>
    /\ \/ NaN \in Range(top_genres)
       \/ \E i \in 1..Len(rec_df) : rec_df[i].genres_clean = NaN

\* sum(1 for g in top_genres if g in genres_str)
genre_score(top_genres, genres_str) ==
    Cardinality({i \in 1..Len(top_genres) : IsSubstring(top_genres[i], genres_str)})

RatingSpan == 1000      \* more than any avg_rating, in tenths

\* sort_values(by=['genre_score', 'avg_rating'], ascending=[False, False]):
\* a sort on several columns is a lexsort, which is stable.
genre_score_ranking(top_genres, rec_df) ==
    Take(rec_df, StableArgsortDesc([i \in 1..Len(rec_df) |->
        genre_score(top_genres, rec_df[i].genres_clean) * RatingSpan + rec_df[i].avg_rating]))

\* movies_df after the tab: rec_df = movies_df[...] is a new frame, and the
\* genre_score column is set on it.
movies_df_after_genre_score(df) == df

GenreScoreTab(u) ==
    /\ res = NoResult
    /\ LET hybrid_recs == HybridRecs(u)
           top_genres == IF get_watched(u) = <<>> THEN <<>>
                         ELSE MostCommon(ExplodeGenresKeepNaN(
                                  IsIn(movies_df, Range(get_watched(u)))), GenreTopK)
           rec_df == IsIn(movies_df, Range(hybrid_recs))
           raised == hybrid_recs # <<>> /\ genre_score_raises(top_genres, rec_df)
           ranked == IF hybrid_recs = <<>> \/ raised THEN <<>>
                     ELSE Titles(genre_score_ranking(top_genres, rec_df))
       IN res' = Result("genre_score", u, Len(hybrid_recs), ranked, ranked, raised,
                        hybrid_recs # <<>>)
    /\ movies_df' = movies_df_after_genre_score(movies_df)
    /\ UNCHANGED <<final_recs, watched, tieOrder>>
    /\ UNCHANGED boostVars
    /\ UNCHANGED handlerVars
    /\ UNCHANGED gr_frame
    /\ UNCHANGED accountVars

FrameCatalogs == {
    << Row("A", <<"a">>, 40), Row("B", <<"c">>, 45), Row("C", <<"a", "|", "d">>, 30) >>
}

FrameBaseLists == {
    << [movie_id |-> 2, score |-> 9000000], [movie_id |-> 3, score |-> 6000000] >>,
    << [movie_id |-> 3, score |-> 6000000], [movie_id |-> 4, score |-> 6000000],
       [movie_id |-> 2, score |-> 6000001] >>
}

InitFrame ==
    /\ movies_df \in FrameCatalogs
    /\ final_recs \in FinalRecsChoices
    /\ tieOrder = <<1, 2, 3>>
    /\ watched = <<>>
    /\ res = NoResult
    /\ recs_df \in FrameBaseLists
    /\ user_pref_genres \in HandlerPrefs
    /\ meta_df = BoostCatalog
    /\ boost_factor = 1
    /\ boosted = NoFrame
    /\ prev_boosted = NoFrame
    /\ key_error = FALSE
    /\ calls = 0
    /\ HandlerIdle
    /\ AccountIdle

NextFrame ==
    \/ Rerun
    \/ GetPersonalizedRecommendations
    \/ \E u \in Usernames, t \in AllTitles : MarkWatchedInsert(u, t)
    \/ \E u \in Usernames, t \in StoreTitles : UnwatchMovie(u, t)
    \/ \E u \in Usernames, top_n \in 1..MaxTopN : RecommendationsTab(u, top_n)
    \/ \E u \in Usernames : GenreScoreTab(u)

SpecFrame == InitFrame /\ [][NextFrame]_vars

----------------------------------------------------------------------------
(* Properties of the handler (SpecBoost, SpecHandler) *)

InCatalog(m) == \E k \in 1..Len(meta_df) : meta_df[k].movie_id = m

\* C15 (as claimed): a candidate whose catalog id is not in the catalog is
\* silently skipped: it is not in the final list and no error reaches the caller.
C15_MissingCatalogIdSkipped ==
    calls >= 1 =>
        /\ \A i \in 1..Len(boosted.rows) : InCatalog(boosted.rows[i].movie_id)
        /\ uncaught # "TypeError"

\* The candidates both of whose fields convert, as rows.
WellFormedRows(items) ==
    rec_rows(SelectSeq(items, LAMBDA it : it.bad = ""))

\* C16 (as claimed): a candidate whose score or id is malformed is left out of
\* the candidate list, the other candidates are kept, and the request completes
\* without an exception.
C16_MalformedCandidateExcluded ==
    (calls >= 1 /\ model_data.outcome = "ok") =>
        /\ uncaught # "ValueError"
        /\ Len(recs_df) = Len(WellFormedRows(model_data.items))
        /\ \A r \in Range(WellFormedRows(model_data.items)) :
              Count(recs_df, r) = Count(WellFormedRows(model_data.items), r)

\* C17: obtaining base recommendations never fails the caller: when the model
\* raises or has no entry for the user, the base list is empty and the request
\* ends showing a message, never in an uncaught exception.
C17_BaseRecommendationsNeverFail ==
    (calls >= 1 /\ model_data.outcome \in {"raises", "absent"}) =>
        /\ recs_df = <<>>
        /\ uncaught = ""
        /\ notice \in {"No recommendations returned by the model.",
                       "User not found in model!"}

\* The model raised inside the handler, which went on to report an empty list.
C17_Witness ==
    /\ calls >= 1
    /\ model_data.outcome = "raises"
    /\ notice = "No recommendations returned by the model."
    /\ uncaught = ""

----------------------------------------------------------------------------
(* Properties of the stepwise call (SpecSnapshot) *)

\* C18 (as claimed): one call of get_genre_recommendations works on a single
\* snapshot of the user's watched records: the set used to exclude titles and
\* the set the top genres are derived from are the same, also when a
\* mark_watched for that user from another session interleaves with the call.
C18_SingleWatchedSnapshot ==
    gr_frame.pc = "done" => gr_frame.watched = gr_frame.profiled

----------------------------------------------------------------------------
(* Properties of the shared frames (SpecFrame) *)

----------------------------------------------------------------------------
(* Properties of the justifications (Spec) *)

SharesGenre(t, w) == to_set(t) \cap to_set(w) # {}

\* C20 (as claimed): 'Because you watched X' is attached to a recommended title
\* only when X is a title the user has watched that shares at least one genre
\* with it; when no watched title shares a genre with it, the generic
\* 'Recommended for you' is used.
C20_ReasonNamesWatchedTitleSharingGenre ==
    (res.op = "tab_filtered" /\ ~res.raised) =>
        \A i \in 1..Len(res.reasons) :
            /\ res.reasons[i].kind = "Because you watched" =>
                  /\ res.reasons[i].because \in res.seen
                  /\ SharesGenre(res.reasons[i].title, res.reasons[i].because)
            /\ (\A w \in res.seen : ~SharesGenre(res.reasons[i].title, w)) =>
                  res.reasons[i].kind = "Recommended for you"

----------------------------------------------------------------------------
(* order_df_by_titles on any list of titles, lines 477-494 (SpecOrder) *)

MaxOrdered == 3         \* longest list of titles handed to render_cards_by_titles

OrderTitles == {"A", "B", "C", "X"}

\* The lists of at most n titles.
RECURSIVE TitleLists(_)
TitleLists(n) ==
    IF n = 0 THEN {<<>>}
    ELSE LET shorter == TitleLists(n - 1)
         IN shorter \cup {Append(s, t) : s \in {x \in shorter : Len(x) = n - 1},
                                          t \in OrderTitles}

\* render_cards_by_titles(titles, username, prefix): the cards it draws.
RenderCardsByTitles(titles) ==
    /\ res = NoResult
    /\ res' = Result("cards", <<>>, Len(titles), titles, CardsShown(titles), FALSE, FALSE)
    /\ UNCHANGED <<movies_df, final_recs, watched, tieOrder>>
    /\ UNCHANGED boostVars
    /\ UNCHANGED handlerVars
    /\ UNCHANGED gr_frame
    /\ UNCHANGED accountVars

InitOrder ==
    /\ movies_df \in Catalogs
    /\ final_recs = <<>>
    /\ tieOrder \in IF HasEqualRatings(movies_df) THEN TieOrders ELSE {<<1, 2, 3>>}
    /\ watched = <<>>
    /\ res = NoResult
    /\ BoostIdle
    /\ HandlerIdle
    /\ AccountIdle

NextOrder ==
    \/ Rerun
    \/ \E titles \in TitleLists(MaxOrdered) : RenderCardsByTitles(titles)

SpecOrder == InitOrder /\ [][NextOrder]_vars

----------------------------------------------------------------------------
(* Properties of the card order (SpecOrder) *)

\* C21 (as claimed): order_df_by_titles returns the catalog rows whose title is
\* in ordered_titles, in the order the titles have in ordered_titles: of two
\* returned rows the one whose title comes first in ordered_titles comes first;
\* titles absent from the catalog are dropped.  This holds for every list,
\* also one with repeated titles.
C21_CardsInGivenOrder ==
    res.op = "cards" =>
        /\ Range(res.shown) = Range(res.titles) \cap Range(Titles(movies_df))
        /\ \A i, j \in 1..Len(res.shown) :
              i < j => FirstPos(res.titles, res.shown[i]) < FirstPos(res.titles, res.shown[j])

----------------------------------------------------------------------------
(* Properties of the justifications, continued (Spec) *)

\* The genres of the catalog row of title t; none for a title without a row.
TitleGenres(t) ==
    UNION {GenreSetOf(movies_df[k]) : k \in {k \in 1..Len(movies_df) : movies_df[k].title = t}}

\* |rec & w| and |rec | w| for the genre sets of the catalog rows of t and w.
OverlapNum(t, w) == Cardinality(TitleGenres(t) \cap TitleGenres(w))

OverlapDen(t, w) ==
    IF TitleGenres(t) \cup TitleGenres(w) = {} THEN 1
    ELSE Cardinality(TitleGenres(t) \cup TitleGenres(w))

\* The Jaccard overlap of t with v is at most that of t with w.
OverlapAtMost(t, v, w) ==
    OverlapNum(t, v) * OverlapDen(t, w) <= OverlapNum(t, w) * OverlapDen(t, v)

\* C22: build_reason_map names, for each recommended title, the watched title
\* with the highest Jaccard overlap of genre sets; when several watched titles
\* tie for the highest overlap it names the one that comes first in the watched
\* list; when the user has no watched titles every reason is 'Recommended for
\* you'.
C22_ReasonIsFirstBestOverlap ==
    (res.op = "tab_filtered" /\ ~res.raised) =>
        /\ Len(res.reasons) = Len(res.titles)
        /\ \A i \in 1..Len(res.reasons) :
              LET r == res.reasons[i]
                  ws == get_watched(res.user)
              IN /\ r.title = res.titles[i]
                 /\ ws = <<>> => r.kind = "Recommended for you"
                 /\ ws # <<>> =>
                       /\ r.kind = "Because you watched"
                       /\ r.because \in Range(ws)
                       /\ \A k \in 1..Len(ws) :
                             /\ OverlapAtMost(r.title, ws[k], r.because)
                             /\ OverlapAtMost(r.title, r.because, ws[k])
                                   => FirstPos(ws, r.because) <= k

\* Two watched titles tie for the highest overlap, which is positive, with a
\* recommended title, and the one named is not the first of them in the catalog.
C22_Witness ==
    /\ res.op = "tab_filtered"
    /\ ~res.raised
    /\ \E i \in 1..Len(res.reasons) : \E w \in res.seen :
          /\ w # res.reasons[i].because
          /\ OverlapNum(res.reasons[i].title, w) > 0
          /\ OverlapAtMost(res.reasons[i].title, res.reasons[i].because, w)
          /\ CatalogIndex(w) < CatalogIndex(res.reasons[i].because)

----------------------------------------------------------------------------
(* Properties of the fallback list for a user with history (Spec) *)

\* C23 (as claimed): for a user with a non-empty watch history,
\* get_genre_recommendations returns at most top_n titles, in descending
\* avg_rating order, none of which the user has watched, and each of which has
\* at least one genre, as a member of its genre set, among the user's top-4
\* genres.
C23_HistoryFallbackMatchesTopGenreSets ==
    (res.op = "tab" /\ ~res.hit /\ ~res.raised /\ res.seen # {}) =>
        /\ Len(res.titles) <= res.n
        /\ \A i, j \in 1..Len(res.titles) :
              i < j => RatingOf(res.titles[i]) >= RatingOf(res.titles[j])
        /\ Range(res.titles) \cap res.seen = {}
        /\ \A i \in 1..Len(res.titles) :
              TitleGenres(res.titles[i])
                  \cap Range(get_top_genres(res.user, TopGenresK)) # {}

----------------------------------------------------------------------------
(* boost_recommendations on a catalog with list-valued genres (SpecGenresForm) *)

MaxFormRecs == 2        \* longest base list of this specification

\* The scenario's catalog with genres_clean given as lists of strings.
BoostCatalogLists ==
    << [movie_id |-> 1, genres_clean |-> PyList(<< <<"a">> >>)],
       [movie_id |-> 2, genres_clean |-> PyList(<< <<"c">> >>)],
       [movie_id |-> 3, genres_clean |-> PyList(<< <<"a">>, <<"d">> >>)] >>

FormBaseLists == UNION {[1..n -> BaseRows] : n \in 1..MaxFormRecs}

InitGenresForm ==
    /\ recs_df \in FormBaseLists
    /\ user_pref_genres \in PrefChoices
    /\ meta_df \in {BoostCatalog, BoostCatalogLists}
    /\ boost_factor \in BoostFactors
    /\ tieOrder = <<1, 2, 3>>
    /\ boosted = NoFrame
    /\ prev_boosted = NoFrame
    /\ key_error = FALSE
    /\ calls = 0
    /\ DashIdle
    /\ HandlerIdle
    /\ AccountIdle

NextGenresForm == GetPersonalizedRecommendations

SpecGenresForm == InitGenresForm /\ [][NextGenresForm]_vars

----------------------------------------------------------------------------
(* Properties of the two forms of catalog genres (SpecGenresForm) *)

\* '|'.join(items)
RECURSIVE PipeJoin(_)
PipeJoin(items) ==
    IF items = <<>> THEN <<>>
    ELSE IF Len(items) = 1 THEN items[1]
    ELSE items[1] \o <<"|">> \o PipeJoin(Tail(items))

\* The same catalog with every list of genres written as a pipe-separated string.
PipeForm(meta) ==
    [i \in 1..Len(meta) |->
        [movie_id |-> meta[i].movie_id,
         genres_clean |-> IF IsList(meta[i].genres_clean)
                          THEN PipeJoin(Tail(meta[i].genres_clean))
                          ELSE meta[i].genres_clean]]

\* The genres of a cell in either form.
CellGenres(g) ==
    IF g = NaN THEN {}
    ELSE IF IsList(g) THEN Range(Tail(g))
    ELSE Range(Split(g, "|"))

\* What a frame holds for the entries with id m: score, overlap, boosted score.
EntriesOf(rows, m) ==
    {<<rows[i].score, rows[i].overlap, rows[i].score_boosted>> :
        i \in {i \in 1..Len(rows) : rows[i].movie_id = m}}

\* C24 (as claimed): boost_recommendations accepts catalog genres 'as pipe or
\* list': an entry whose catalog genres are given as a list of strings that
\* intersects the user's preferences gets the same positive overlap and boost
\* as the same entry with its genres given as a pipe-separated string.
C24_ListGenresBoostedLikePipeGenres ==
    (calls >= 1 /\ "overlap" \in boosted.columns) =>
        \A k \in 1..Len(meta_df) :
            (/\ IsList(meta_df[k].genres_clean)
             /\ CellGenres(meta_df[k].genres_clean) \cap Range(user_pref_genres) # {}) =>
                /\ \A e \in EntriesOf(boosted.rows, meta_df[k].movie_id) : e[2] > 0
                /\ EntriesOf(boosted.rows, meta_df[k].movie_id)
                     = EntriesOf(boost_recommendations(recs_df, user_pref_genres,
                                     PipeForm(meta_df), boost_factor).rows,
                                 meta_df[k].movie_id)

----------------------------------------------------------------------------
(* mark_watched of two sessions, statement by statement (SpecRace)          *)
(*                                                                          *)
(* Every session runs the script in a thread of its own and opens its own   *)
(* connection to users.db (line 400).  `watched` is the committed table; a  *)
(* row inserted and not yet committed is seen by its own session only, and  *)
(* sqlite lets one connection write at a time.                              *)

RaceTitles == {"A", "B"}

MarkFrame(pc, u, t, found) == [pc |-> pc, user |-> u, title |-> t, found |-> found]

\* Another session holds the write lock: it has inserted and not committed.
WriterOtherThan(s) == \E o \in Sessions \ {s} : mw_frame.at[o].pc = "inserted"

SetMark(s, f) == MarkFrames(mw_frame.unique, [mw_frame.at EXCEPT ![s] = f])

\* Lines 441-442: SELECT 1 FROM watched WHERE username=? AND movie_title=?
MarkWatchedSelect(s, u, t) ==
    /\ ~mw_frame.unique
    /\ mw_frame.at[s].pc = "idle"
    /\ Len(watched) < MaxWatched
    /\ mw_frame' = SetMark(s, MarkFrame("selected", u, t, CountRows(u, t) > 0))
    /\ UNCHANGED <<movies_df, final_recs, watched, tieOrder, res>>
    /\ UNCHANGED boostVars
    /\ UNCHANGED handlerVars
    /\ UNCHANGED <<gr_frame, users, session>>

\* Lines 442-443: `if c.fetchone() is None:` and the INSERT, which waits for the
\* write lock.
MarkWatchedInsertRow(s) ==
    /\ mw_frame.at[s].pc = "selected"
    /\ IF mw_frame.at[s].found
       THEN mw_frame' = SetMark(s, [mw_frame.at[s] EXCEPT !.pc = "done"])
       ELSE /\ ~WriterOtherThan(s)
            /\ mw_frame' = SetMark(s, [mw_frame.at[s] EXCEPT !.pc = "inserted"])
    /\ UNCHANGED <<movies_df, final_recs, watched, tieOrder, res>>
    /\ UNCHANGED boostVars
    /\ UNCHANGED handlerVars
    /\ UNCHANGED <<gr_frame, users, session>>

\* Line 3652: INSERT OR IGNORE into the table with UNIQUE(username, movie_title):
\* the row is ignored when the committed table has it.
MarkWatchedInsertOrIgnore(s, u, t) ==
    /\ mw_frame.unique
    /\ mw_frame.at[s].pc = "idle"
    /\ Len(watched) < MaxWatched
    /\ ~WriterOtherThan(s)
    /\ mw_frame' = SetMark(s, MarkFrame("inserted", u, t, CountRows(u, t) > 0))
    /\ UNCHANGED <<movies_df, final_recs, watched, tieOrder, res>>
    /\ UNCHANGED boostVars
    /\ UNCHANGED handlerVars
    /\ UNCHANGED <<gr_frame, users, session>>

\* conn.commit(): the inserted row becomes part of the table.
MarkWatchedCommit(s) ==
    /\ mw_frame.at[s].pc = "inserted"
    /\ watched' = IF mw_frame.at[s].found THEN watched
                  ELSE Append(watched, WatchedRow(mw_frame.at[s].user, mw_frame.at[s].title))
    /\ mw_frame' = SetMark(s, [mw_frame.at[s] EXCEPT !.pc = "done"])
    /\ UNCHANGED <<movies_df, final_recs, tieOrder, res>>
    /\ UNCHANGED boostVars
    /\ UNCHANGED handlerVars
    /\ UNCHANGED <<gr_frame, users, session>>

\* mark_watched returns; st.rerun() follows and the session may mark again.
MarkWatchedReturn(s) ==
    /\ mw_frame.at[s].pc = "done"
    /\ mw_frame' = SetMark(s, NoMark)
    /\ UNCHANGED <<movies_df, final_recs, watched, tieOrder, res>>
    /\ UNCHANGED boostVars
    /\ UNCHANGED handlerVars
    /\ UNCHANGED <<gr_frame, users, session>>

InitRace ==
    /\ movies_df \in StoreCatalogs
    /\ final_recs \in FinalRecsChoices
    /\ tieOrder = <<1, 2, 3>>
    /\ watched = <<>>
    /\ res = NoResult
    /\ BoostIdle
    /\ HandlerIdle
    /\ users = UserStore("sqlite", <<>>)
    /\ session = [s \in Sessions |-> NewSession]
    /\ mw_frame \in {MarkFrames(b, [s \in Sessions |-> NoMark]) : b \in BOOLEAN}

NextRace ==
    \/ \E s \in Sessions, u \in Usernames, t \in RaceTitles : MarkWatchedSelect(s, u, t)
    \/ \E s \in Sessions : MarkWatchedInsertRow(s)
    \/ \E s \in Sessions, u \in Usernames, t \in RaceTitles : MarkWatchedInsertOrIgnore(s, u, t)
    \/ \E s \in Sessions : MarkWatchedCommit(s)
    \/ \E s \in Sessions : MarkWatchedReturn(s)

SpecRace == InitRace /\ [][NextRace]_vars

----------------------------------------------------------------------------
(* Properties of concurrent marks (SpecRace) *)

\* C25 (as claimed): two sessions that execute mark_watched(u, t) concurrently
\* for the same user and title, in any interleaving of their SELECT, INSERT and
\* commit steps, leave exactly one record for (u, t) in the watched store.
C25_ConcurrentMarksLeaveOneRecord ==
    (\A s \in Sessions : mw_frame.at[s].pc = "done") =>
        \A s \in Sessions : CountRows(mw_frame.at[s].user, mw_frame.at[s].title) = 1

----------------------------------------------------------------------------
(* Accounts and sessions: signup, login, logout and the logged-in tabs,     *)
(* lines 399-437 and 566-632; the users.csv store of lines 86-105 and the   *)
(* "Create account" handler of lines 240-250 (SpecSession)                  *)

MaxUsers == 2           \* rows of the user store

Passwords == {<<>>, <<"p">>, <<"q">>}

SignupNames == {<<>>, <<"7">>, <<"b">>}

SessionTitles == {"A", "B"}

UserRow(u, p) == [username |-> u, password |-> p]

HasUser(rows, u) == \E i \in 1..Len(rows) : rows[i].username = u

\* signup, lines 422-431: the error it reports, "" when it reports success.
\* The PRIMARY KEY of users raises IntegrityError for a username already there.
signup_error(rows, u, p) ==
    IF u = <<>> \/ p = <<>> THEN "Please enter both username and password."
    ELSE IF HasUser(rows, u) THEN "Username already exists."
    ELSE ""

\* The users table after signup(u, p).
signup(rows, u, p) ==
    IF signup_error(rows, u, p) = "" THEN Append(rows, UserRow(u, p)) ELSE rows

\* pd.read_csv(USERS_CSV)['username']: a column of digit strings only is read
\* as integers, any other column as strings.
csv_usernames(rows) ==
    IF rows # <<>> /\ \A i \in 1..Len(rows) : IsNumeric(rows[i].username)
    THEN [i \in 1..Len(rows) |-> IntKey(IntOf(rows[i].username))]
    ELSE [i \in 1..Len(rows) |-> StrKey(rows[i].username)]

\* get_user_record(username) is not None; also `username in df['username'].values`
\* of save_user: the typed username is a str and equals no integer.
csv_has_user(rows, u) ==
    \E i \in 1..Len(rows) : csv_usernames(rows)[i] = StrKey(u)

\* save_user: the row of a username found in the file is updated, otherwise a
\* row is appended; to_csv writes the file.
save_user(rows, u, p) ==
    IF csv_has_user(rows, u)
    THEN [i \in 1..Len(rows) |->
            IF csv_usernames(rows)[i] = StrKey(u) THEN UserRow(rows[i].username, p)
            ELSE rows[i]]
    ELSE Append(rows, UserRow(u, p))

\* The "Create account" handler, lines 240-250: its error, "" on success.
create_account_error(rows, u, p) ==
    IF u = <<>> \/ p = <<>> THEN "Username & password required"
    ELSE IF csv_has_user(rows, u) THEN "Username already exists"
    ELSE ""

\* users.csv after the handler.
create_account(rows, u, p) ==
    IF create_account_error(rows, u, p) = "" THEN save_user(rows, u, p) ELSE rows

\* A login that looks the username up and does not compare the password.
login_any_password(u, p) ==
    /\ u # <<>>
    /\ p # <<>>
    /\ HasUser(users.rows, u)

\* A login that only asks for both fields to be filled in.
login_unchecked(u, p) == u # <<>> /\ p # <<>>

\* login, lines 433-437.
login(u, p) ==
    /\ u # <<>>
    /\ p # <<>>
    /\ \E i \in 1..Len(users.rows) : users.rows[i] = UserRow(u, p)

\* What the last account or tab action did.
AccountResult(op, s, u, p, t, ok, before) ==
    [op |-> op, session |-> s, user |-> u, password |-> p, title |-> t, ok |-> ok,
     before |-> before]

\* The "Sign Up" button, lines 582-587, shown to a logged-out session.
Signup(s, u, p) ==
    /\ res = NoResult
    /\ users.kind = "sqlite"
    /\ ~session[s].logged_in
    /\ Len(users.rows) < MaxUsers
    /\ users' = UserStore(users.kind, signup(users.rows, u, p))
    /\ res' = AccountResult("signup", s, u, p, "", signup_error(users.rows, u, p) = "",
                            users.rows)
    /\ UNCHANGED <<movies_df, final_recs, watched, tieOrder>>
    /\ UNCHANGED boostVars
    /\ UNCHANGED handlerVars
    /\ UNCHANGED <<gr_frame, session, mw_frame>>

\* The "Create account" button of the users.csv variant, lines 240-250.
CreateAccount(s, u, p) ==
    /\ res = NoResult
    /\ users.kind = "csv"
    /\ Len(users.rows) < MaxUsers
    /\ users' = UserStore(users.kind, create_account(users.rows, u, p))
    /\ res' = AccountResult("signup", s, u, p, "",
                            create_account_error(users.rows, u, p) = "", users.rows)
    /\ UNCHANGED <<movies_df, final_recs, watched, tieOrder>>
    /\ UNCHANGED boostVars
    /\ UNCHANGED handlerVars
    /\ UNCHANGED <<gr_frame, session, mw_frame>>

\* The "Login" button, lines 589-601, shown to a logged-out session.
Login(s, u, p) ==
    /\ res = NoResult
    /\ users.kind = "sqlite"
    /\ ~session[s].logged_in
    /\ session' = IF login(u, p) THEN [session EXCEPT ![s] = SessionState(TRUE, u)]
                  ELSE session
    /\ res' = AccountResult("login", s, u, p, "", login(u, p), users.rows)
    /\ UNCHANGED <<movies_df, final_recs, watched, tieOrder>>
    /\ UNCHANGED boostVars
    /\ UNCHANGED handlerVars
    /\ UNCHANGED <<gr_frame, users, mw_frame>>

\* The "Logout" button, lines 575-580, shown to a logged-in session.
Logout(s) ==
    /\ res = NoResult
    /\ users.kind = "sqlite"
    /\ session[s].logged_in
    /\ session' = [session EXCEPT ![s] = SessionState(FALSE, <<>>)]
    /\ res' = AccountResult("logout", s, session[s].username, <<>>, "", TRUE, users.rows)
    /\ UNCHANGED <<movies_df, final_recs, watched, tieOrder>>
    /\ UNCHANGED boostVars
    /\ UNCHANGED handlerVars
    /\ UNCHANGED <<gr_frame, users, mw_frame>>

\* The "Watched" button of a card in the tabs of lines 603-632, which are drawn
\* under `if st.session_state.logged_in:`.
SessionMarkWatched(s, t) ==
    /\ res = NoResult
    /\ users.kind = "sqlite"
    /\ session[s].logged_in
    /\ Len(watched) < MaxWatched
    /\ t \in Range(Titles(movies_df))
    /\ watched' = mark_watched(session[s].username, t)
    /\ res' = AccountResult("mark", s, session[s].username, <<>>, t, TRUE, users.rows)
    /\ UNCHANGED <<movies_df, final_recs, tieOrder>>
    /\ UNCHANGED boostVars
    /\ UNCHANGED handlerVars
    /\ UNCHANGED <<gr_frame, users, session, mw_frame>>

\* The "Unwatch" button of a card, lines 3657-3662, in the logged-in tabs.
SessionUnwatchMovie(s, t) ==
    /\ res = NoResult
    /\ users.kind = "sqlite"
    /\ session[s].logged_in
    /\ t \in Range(Titles(movies_df))
    /\ watched' = unwatch_movie(session[s].username, t)
    /\ res' = AccountResult("unwatch", s, session[s].username, <<>>, t,
                            CountRows(session[s].username, t) > 0, users.rows)
    /\ UNCHANGED <<movies_df, final_recs, tieOrder>>
    /\ UNCHANGED boostVars
    /\ UNCHANGED handlerVars
    /\ UNCHANGED <<gr_frame, users, session, mw_frame>>

InitSession ==
    /\ movies_df = << Row("A", <<"a">>, 40), Row("B", <<"c">>, 45),
                      Row("C", <<"a", "|", "d">>, 30) >>
    /\ final_recs = <<>>
    /\ tieOrder = <<1, 2, 3>>
    /\ watched = <<>>
    /\ res = NoResult
    /\ BoostIdle
    /\ HandlerIdle
    /\ users \in {UserStore("sqlite", <<>>), UserStore("csv", <<>>)}
    /\ session = [s \in Sessions |-> NewSession]
    /\ mw_frame = MarkFrames(FALSE, [s \in Sessions |-> NoMark])

NextSession ==
    \/ Rerun
    \/ \E s \in Sessions, u \in SignupNames, p \in Passwords : Signup(s, u, p)
    \/ \E s \in Sessions, u \in SignupNames, p \in Passwords : CreateAccount(s, u, p)
    \/ \E s \in Sessions, u \in SignupNames, p \in Passwords : Login(s, u, p)
    \/ \E s \in Sessions : Logout(s)
    \/ \E s \in Sessions, t \in SessionTitles : SessionMarkWatched(s, t)
    \/ \E s \in Sessions, t \in SessionTitles : SessionUnwatchMovie(s, t)

SpecSession == InitSession /\ [][NextSession]_vars

----------------------------------------------------------------------------
(* Properties of accounts and sessions (SpecSession) *)

\* C26: session invariant of the dashboard: logged_in is True only if username
\* is the non-empty username of the last successful login(username, password)
\* of that session; a failed login changes neither logged_in nor username;
\* logout sets logged_in to False and username to empty; and the tabs with the
\* 'mark watched' action are reachable only while logged_in is True.
C26_SessionInvariant ==
    /\ [](\A s \in Sessions : session[s].logged_in => session[s].username # <<>>)
    /\ [][\A s \in Sessions :
            /\ (session'[s].logged_in /\ session'[s] # session[s]) =>
                  /\ res'.op = "login" /\ res'.session = s /\ res'.ok
                  /\ session'[s].username = res'.user
                  /\ \E i \in 1..Len(users.rows) :
                        users.rows[i] = UserRow(res'.user, res'.password)
            /\ (res'.op = "login" /\ ~res'.ok) => session' = session
            /\ (res'.op = "logout" /\ res'.session = s) =>
                  session'[s] = SessionState(FALSE, <<>>)
            /\ (res'.op \in {"mark", "unwatch"} /\ res'.session = s) =>
                  /\ session[s].logged_in
                  /\ res'.user = session[s].username
         ]_vars

\* One session is logged in and the other has just failed to log in as the same
\* user with another password.
C26_Witness ==
    /\ res.op = "login"
    /\ ~res.ok
    /\ HasUser(users.rows, res.user)
    /\ ~session[res.session].logged_in
    /\ \E s \in Sessions : session[s].logged_in /\ session[s].username = res.user

\* C27: after any sequence of signup, login, logout and mark-watched actions
\* through the dashboard, every record of the watched store belongs to a
\* registered user: each watched.username is a username of the users table.
C27_WatchedRowsBelongToUsers ==
    \A i \in 1..Len(watched) : HasUser(users.rows, watched[i].username)

\* Two users have marked titles and the one who marked first has logged out.
C27_Witness ==
    /\ Len(watched) >= 2
    /\ watched[1].username # watched[2].username
    /\ \A s \in Sessions : session[s].username # watched[1].username

\* C28 (as claimed): signup with a username that already exists, or with an
\* empty username or password, reports an error and leaves the user store
\* unchanged: no user is added and the stored password of the existing user is
\* not overwritten; signup with a new username and non-empty password adds
\* exactly that user.
C28_SignupRejectsExistingAndEmpty ==
    res.op = "signup" =>
        IF res.user = <<>> \/ res.password = <<>> \/ HasUser(res.before, res.user)
        THEN ~res.ok /\ users.rows = res.before
        ELSE res.ok /\ users.rows = Append(res.before, UserRow(res.user, res.password))

\* C29: mark_watched(u, t) and unwatch_movie(u, t) change only the record for
\* the pair (u, t): the watched records of every other user, the records of u
\* for every other title, and the users table are the same after the call as
\* before.
C29_OnlyThePairChanges ==
    [][res'.op \in {"mark", "unwatch"} =>
          LET pair == WatchedRow(res'.user, res'.title)
              left == Cardinality({i \in 1..Len(watched') : watched'[i] = pair})
          IN /\ users' = users
             /\ SelectSeq(watched', LAMBDA r : r # pair)
                  = SelectSeq(watched, LAMBDA r : r # pair)
             /\ res'.op = "mark" => left = 1
             /\ res'.op = "unwatch" => left = 0
      ]_vars

\* A title was unwatched while the same user has another title marked.
C29_Witness ==
    /\ res.op = "unwatch"
    /\ res.ok
    /\ \E i \in 1..Len(watched) :
          watched[i].username = res.user /\ watched[i].movie_title # res.title

====
